---------------------------- MODULE Spec2Model ----------------------------
(***************************************************************************)
(* A model of the aippt desktop pipeline:                                  *)
(*   - MainWindow and its three QThread workers (main_gui.py, worker.py),  *)
(*     specification Spec;                                                 *)
(*   - the retry loop of _chat_completion (llm_client.py), SpecChat;       *)
(*   - pptx_to_markdown and _split_markdown_slides (extractor.py,          *)
(*     ppt_builder.py), SpecExtract;                                       *)
(*   - _lock_zero_len_lines / _unlock_and_dedup (llm_client.py), SpecLock. *)
(* Text is modelled as TLA+ strings, handled one character at a time, so   *)
(* that the regular expressions of the source are matched as written.      *)
(***************************************************************************)
EXTENDS Integers, Sequences, FiniteSets, TLC

VARIABLES
    mw,         \* MainWindow: page, template_path, prompts, outline_md,
                \* progress dialog, worker handles
    extractW,   \* the ExtractWorker instances of the session
    outlineW,   \* the OutlineWorker instances of the session
    pptW,       \* the PPTWorker instances of the session
    uiQueue,    \* queued signal deliveries posted to the UI thread (FIFO)
    chat,       \* one call of _chat_completion
    ex,         \* one extraction: deck, markdown, placeholder map, chunks
    lk,         \* one lock / generate / unlock cycle
    rd,         \* one PPTWorker run from prepare_image_candidates to prs.save
    wp,         \* one call of _write_page_to_slide
    rt,         \* one template taken through extraction, outline, content, render
    us          \* one call of unsplash_search

vars == <<mw, extractW, outlineW, pptW, uiQueue, chat, ex, lk, rd, wp,
          rt, us>>

(***************************************************************************)
(* Bounds of the model                                                     *)
(***************************************************************************)
\* worker instances of each kind that one session may create
MaxRuns == 2

(***************************************************************************)
(* Python values                                                           *)
(***************************************************************************)
\* Optional[T]: None is the empty tuple, a value x is <<x>>
None == <<>>

Some(x) == <<x>>

\* Python truthiness of an Optional[str]
TruthyStr(o) == o # None /\ o[1] # ""

\* Python truthiness of an Optional[dict]
TruthyDict(o) == o # None /\ DOMAIN o[1] # {}

Range(f) == {f[i] : i \in DOMAIN f}

\* worker.py: class ErrorDetails
ErrorDetails(message, err_type) == [message |-> message, type |-> err_type]

(***************************************************************************)
(* Python strings, one character at a time                                 *)
(***************************************************************************)
Min(S) == CHOOSE x \in S : \A y \in S : x <= y

Max(S) == CHOOSE x \in S : \A y \in S : y <= x

\* the n-th smallest member of a set of numbers
Nth(S, n) == CHOOSE x \in S : Cardinality({y \in S : y <= x}) = n

\* s[i - 1] in Python's numbering
Char(s, i) == SubSeq(s, i, i)

\* the characters str.strip() and the regular expression class \s remove
Whitespace == {" ", "\t", "\n", "\r", "\f"}

\* the regular expression class \d
Digits == {"0", "1", "2", "3", "4", "5", "6", "7", "8", "9"}

\* s[i - 1:].startswith(p)
MatchAt(s, p, i) == i >= 1 /\ i + Len(p) - 1 <= Len(s) /\ SubSeq(s, i, i + Len(p) - 1) = p

\* s.startswith(p)
StartsWith(s, p) == MatchAt(s, p, 1)

\* s.find(p, from - 1) + 1: the first position at or after from where p
\* occurs, 0 when there is none
Find(s, p, from) ==
    LET hits == {i \in from..Len(s) : MatchAt(s, p, i)} IN
    IF hits = {} THEN 0 ELSE Min(hits)

\* s.lstrip(chars)
LStripSet(s, chars) ==
    LET keep == {i \in 1..Len(s) : Char(s, i) \notin chars} IN
    IF keep = {} THEN "" ELSE SubSeq(s, Min(keep), Len(s))

\* s.rstrip(chars)
RStripSet(s, chars) ==
    LET tail == {k \in 1..Len(s) : \A j \in k..Len(s) : Char(s, j) \in chars} IN
    IF tail = {} THEN s ELSE SubSeq(s, 1, Min(tail) - 1)

\* s.rstrip()
RStrip(s) == RStripSet(s, Whitespace)

\* s.lstrip()
LStrip(s) == LStripSet(s, Whitespace)

\* s.strip()
Strip(s) == LStrip(RStrip(s))

(***************************************************************************)
(* The session's inputs                                                    *)
(***************************************************************************)
\* the templates the user can pick, with the picture relationships
\* (slide_idx, rId) each one holds
Templates == {"plain.pptx", "photo.pptx"}

TemplatePictures(t) == IF t = "photo.pptx" THEN {<<0, "rId2">>} ELSE {}

\* PromptPage._on_next only emits when all three fields are non-empty
PromptSets == {[report_type |-> "report", ai_role |-> "analyst", topic |-> "ai"]}

\* what the outline editor can hold when the user presses the button
OutlineEdits == {"", "edited outline"}

(***************************************************************************)
(* Worker records                                                          *)
(***************************************************************************)
Runs == 1..MaxRuns

\* a QThread subclass instance that has not been constructed yet
NoExtractWorker ==
    [pc |-> "none", ppt_path |-> None, emitted |-> <<>>, delivered |-> 0]

NoOutlineWorker ==
    [pc |-> "none", md |-> None, prompts |-> None,
     emitted |-> <<>>, delivered |-> 0]

NoPPTWorker ==
    [pc |-> "none", template_path |-> None, outline_md |-> None,
     prompts |-> None, user_choices |-> None, has_wait_loop |-> FALSE,
     loop_exit |-> FALSE, full_md |-> None, mapping |-> None,
     used_choices |-> None, phases |-> <<>>, images_ready |-> 0,
     recv |-> 0, emitted |-> <<>>, delivered |-> 0]

Created(W) == {i \in Runs : W[i].pc # "none"}

\* the next free instance slot of a worker kind
NextId(W) == Cardinality(Created(W)) + 1

\* a signal emitted over a Qt.QueuedConnection: posted to the UI thread
Post(ev) == Append(uiQueue, ev)

InitGui ==
    /\ mw = [page |-> "TEMPLATE", template_path |-> None, prompts |-> None,
             outline_md |-> None, progress |-> FALSE,
             extract_worker |-> 0, outline_worker |-> 0, ppt_worker |-> 0]
    /\ extractW = [i \in Runs |-> NoExtractWorker]
    /\ outlineW = [i \in Runs |-> NoOutlineWorker]
    /\ pptW = [i \in Runs |-> NoPPTWorker]
    /\ uiQueue = <<>>

(***************************************************************************)
(* MainWindow (main_gui.py)                                                *)
(***************************************************************************)
\* A click reaches a page only while no application-modal window is shown:
\* the progress dialog is created with Qt.ApplicationModal, and the message
\* boxes and the image dialogs are modal and closed again inside the
\* handler that opened them.
UiInputEnabled_NotModal == TRUE

UiInputEnabled == ~mw.progress

\* MainWindow._show_progress
_show_progress(m) == [m EXCEPT !.progress = TRUE]

\* MainWindow._critical: closes the progress dialog, shows a modal box
_critical(m) == [m EXCEPT !.progress = FALSE]

\* MainWindow._goto
_goto(m, p) == [m EXCEPT !.page = p]

_on_template_ready ==
    /\ UiInputEnabled
    /\ mw.page = "TEMPLATE"
    /\ \E path \in Templates :
        mw' = _goto([mw EXCEPT !.template_path = Some(path),
                               !.prompts = None,
                               !.outline_md = None], "PROMPT")
    /\ UNCHANGED <<extractW, outlineW, pptW, uiQueue, chat, ex, lk, rd, wp, rt, us>>

\* page_prompt.back_requested
PromptBack ==
    /\ UiInputEnabled
    /\ mw.page = "PROMPT"
    /\ mw' = _goto(mw, "TEMPLATE")
    /\ UNCHANGED <<extractW, outlineW, pptW, uiQueue, chat, ex, lk, rd, wp, rt, us>>

_on_prompt_ready ==
    /\ UiInputEnabled
    /\ mw.page = "PROMPT"
    /\ NextId(extractW) \in Runs
    /\ \E prompts \in PromptSets :
        LET id == NextId(extractW) IN
        /\ mw' = [_show_progress(mw) EXCEPT !.prompts = Some(prompts),
                                            !.extract_worker = id]
        /\ extractW' = [extractW EXCEPT ![id] =
               [NoExtractWorker EXCEPT !.pc = "running",
                                       !.ppt_path = mw.template_path]]
    /\ UNCHANGED <<outlineW, pptW, uiQueue, chat, ex, lk, rd, wp, rt, us>>

\* "if err": an ErrorDetails object is truthy, None is not
HasError_Never(err) == FALSE

HasError(err) == err # None

_on_extract_done ==
    /\ uiQueue # <<>>
    /\ Head(uiQueue).sig = "extract_finished"
    /\ LET ev == Head(uiQueue)
           id == NextId(outlineW) IN
        /\ extractW' = [extractW EXCEPT ![ev.w].delivered = @ + 1]
        /\ IF HasError(ev.b)
           THEN /\ mw' = _critical(mw)
                /\ UNCHANGED outlineW
           ELSE /\ id \in Runs
                /\ mw' = [_show_progress(mw) EXCEPT !.outline_worker = id]
                /\ outlineW' = [outlineW EXCEPT ![id] =
                       [NoOutlineWorker EXCEPT !.pc = "running",
                                               !.md = ev.a,
                                               !.prompts = mw.prompts]]
    /\ uiQueue' = Tail(uiQueue)
    /\ UNCHANGED <<pptW, chat, ex, lk, rd, wp, rt, us>>

_on_outline_done ==
    /\ uiQueue # <<>>
    /\ Head(uiQueue).sig = "outline_finished"
    /\ LET ev == Head(uiQueue) IN
        /\ outlineW' = [outlineW EXCEPT ![ev.w].delivered = @ + 1]
        /\ IF HasError(ev.b) \/ ~TruthyStr(ev.a)
           THEN mw' = _critical(mw)
           ELSE mw' = _goto([mw EXCEPT !.progress = FALSE,
                                       !.outline_md = ev.a], "OUTLINE")
    /\ uiQueue' = Tail(uiQueue)
    /\ UNCHANGED <<extractW, pptW, chat, ex, lk, rd, wp, rt, us>>

\* page_outline.back_requested
OutlineBack ==
    /\ UiInputEnabled
    /\ mw.page = "OUTLINE"
    /\ mw' = _goto(mw, "PROMPT")
    /\ UNCHANGED <<extractW, outlineW, pptW, uiQueue, chat, ex, lk, rd, wp, rt, us>>

\* OutlinePage._emit_outline, then MainWindow._on_outline_confirmed
_on_outline_confirmed ==
    /\ UiInputEnabled
    /\ mw.page = "OUTLINE"
    /\ NextId(pptW) \in Runs
    /\ \E txt \in OutlineEdits :
        LET id == NextId(pptW) IN
        IF txt = ""
        THEN UNCHANGED <<mw, pptW>>
        ELSE /\ mw' = [_show_progress(mw) EXCEPT !.outline_md = Some(txt),
                                                 !.ppt_worker = id]
             /\ pptW' = [pptW EXCEPT ![id] =
                    [NoPPTWorker EXCEPT !.pc = "start",
                                        !.template_path = mw.template_path,
                                        !.outline_md = Some(txt),
                                        !.prompts = mw.prompts]]
    /\ UNCHANGED <<extractW, outlineW, uiQueue, chat, ex, lk, rd, wp, rt, us>>

\* what one ImageChoiceDialog can return for a key: None (cancelled, or
\* accepted with nothing clicked), the origin, or one of the candidates
Offered(entry) ==
    {None, Some(entry.origin)} \cup {Some(c) : c \in Range(entry.candidates)}

ChoiceMaps(mapping) ==
    {f \in [DOMAIN mapping -> UNION {Offered(mapping[k]) : k \in DOMAIN mapping}] :
        \A k \in DOMAIN mapping : f[k] \in Offered(mapping[k])}

_on_images_ready ==
    /\ uiQueue # <<>>
    /\ Head(uiQueue).sig = "images_ready"
    /\ LET ev == Head(uiQueue) IN
        \E choices \in ChoiceMaps(ev.a) :
            uiQueue' =
                IF mw.ppt_worker # 0
                THEN Append(Tail(uiQueue),
                            [sig |-> "choices_provided", w |-> mw.ppt_worker,
                             a |-> choices, b |-> None])
                ELSE Tail(uiQueue)
    /\ UNCHANGED <<mw, extractW, outlineW, pptW, chat, ex, lk, rd, wp, rt, us>>

_on_ppt_done ==
    /\ uiQueue # <<>>
    /\ Head(uiQueue).sig = "ppt_finished"
    /\ LET ev == Head(uiQueue) IN
        /\ pptW' = [pptW EXCEPT ![ev.w].delivered = @ + 1]
        /\ mw' = [mw EXCEPT !.progress = FALSE]
    /\ uiQueue' = Tail(uiQueue)
    /\ UNCHANGED <<extractW, outlineW, chat, ex, lk, rd, wp, rt, us>>

(***************************************************************************)
(* Workers (worker.py)                                                     *)
(***************************************************************************)
\* what the stage functions can do when called: return, or raise
Outcomes == {"ok", "raise"}

\* the pair a worker emits from its except branch
OnException_NoError(empty, message, err_type) == <<empty, None>>

OnException(empty, message, err_type) ==
    <<empty, Some(ErrorDetails(message, err_type))>>

\* the pair a worker emits after the stage returned
OnReturn(result) == <<result, None>>

Finished(sig, w, pair) == [sig |-> sig, w |-> w, a |-> pair[1], b |-> pair[2]]

\* ExtractWorker.run
ExtractWorker_run(w) ==
    /\ extractW[w].pc = "running"
    /\ \E o \in Outcomes :
        LET pair == IF o = "ok"
                    THEN OnReturn(Some("template markdown"))
                    ELSE OnException(Some(""), "cannot open",
                                     "MarkdownExtractionError") IN
        /\ extractW' = [extractW EXCEPT ![w].pc = "done",
                                        ![w].emitted = Append(@, <<o, pair>>)]
        /\ uiQueue' = Post(Finished("extract_finished", w, pair))
    /\ UNCHANGED <<mw, outlineW, pptW, chat, ex, lk, rd, wp, rt, us>>

\* what gen_outline can return: an outline, or an empty text
Outlines == {"outline", ""}

\* OutlineWorker.run
OutlineWorker_run(w) ==
    /\ outlineW[w].pc = "running"
    /\ \E o \in Outcomes, outline \in Outlines :
        LET pair == IF o = "ok"
                    THEN OnReturn(Some(outline))
                    ELSE OnException(Some(""), "LLMError",
                                     "OutlineGenerationError") IN
        /\ outlineW' = [outlineW EXCEPT ![w].pc = "done",
                                        ![w].emitted = Append(@, <<o, pair>>)]
        /\ uiQueue' = Post(Finished("outline_finished", w, pair))
    /\ UNCHANGED <<mw, extractW, pptW, chat, ex, lk, rd, wp, rt, us>>

\* the except branch of PPTWorker.run
PPTFail(w, message) ==
    LET pair == OnException(None, message, "PPTGenerationError") IN
    /\ pptW' = [pptW EXCEPT ![w].pc = "done",
                            ![w].phases = Append(@, "finished"),
                            ![w].emitted = Append(@, <<"raise", pair>>)]
    /\ uiQueue' = Post(Finished("ppt_finished", w, pair))

\* PPTWorker.run, the argument check and Step-1: gen_content
PPTWorker_gen_content(w) ==
    /\ pptW[w].pc = "start"
    /\ \E o \in Outcomes :
        IF ~(pptW[w].prompts[1].topic # "" /\ TruthyStr(pptW[w].outline_md))
        THEN PPTFail(w, "Topic or Outline missing")
        ELSE IF o = "raise"
        THEN PPTFail(w, "LLMError")
        ELSE /\ pptW' = [pptW EXCEPT ![w].pc = "prepare",
                                     ![w].full_md = Some("full markdown"),
                                     ![w].phases = Append(@, "gen_content")]
             /\ UNCHANGED uiQueue
    /\ UNCHANGED <<mw, extractW, outlineW, chat, ex, lk, rd, wp, rt, us>>

\* the candidate list unsplash_search comes back with
CandidateLists == {<<"candidate">>}

\* PPTWorker.run, Step-2: Presentation(), prepare_image_candidates and
\* images_ready.emit(mapping)
PPTWorker_prepare(w) ==
    /\ pptW[w].pc = "prepare"
    /\ \E o \in Outcomes, cand \in CandidateLists :
        IF o = "raise"
        THEN PPTFail(w, "cannot open")
        ELSE LET mapping ==
                    [k \in TemplatePictures(pptW[w].template_path[1]) |->
                        [origin |-> "origin", candidates |-> cand]] IN
             /\ pptW' = [pptW EXCEPT
                    ![w].pc = "assign",
                    ![w].mapping = Some(mapping),
                    ![w].images_ready = @ + 1,
                    ![w].phases = @ \o <<"prepare_image_candidates",
                                         "images_ready">>]
             /\ uiQueue' = Post([sig |-> "images_ready", w |-> w,
                                 a |-> mapping, b |-> None])
    /\ UNCHANGED <<mw, extractW, outlineW, chat, ex, lk, rd, wp, rt, us>>

\* PPTWorker.run, Step-3: loop = QEventLoop(); self._wait_loop = loop
PPTWorker_assign_loop(w) ==
    /\ pptW[w].pc = "assign"
    /\ pptW' = [pptW EXCEPT ![w].pc = "exec", ![w].has_wait_loop = TRUE]
    /\ UNCHANGED <<mw, extractW, outlineW, uiQueue, chat, ex, lk, rd, wp, rt, us>>

\* loop.exec_() begins: QEventLoop::exec clears the loop's exit flag, so a
\* quit() made before this point has no effect on the wait
PPTWorker_exec_enter(w) ==
    /\ pptW[w].pc = "exec"
    /\ pptW' = [pptW EXCEPT ![w].pc = "waiting", ![w].loop_exit = FALSE]
    /\ UNCHANGED <<mw, extractW, outlineW, uiQueue, chat, ex, lk, rd, wp, rt, us>>

\* loop.exec_() returns only once quit() was called on the running loop
ExecMayReturn_NoWait(w) == TRUE

ExecMayReturn(w) == pptW[w].loop_exit

\* user_choices = self._user_choices or {k: None for k in mapping}
UserChoices(w) ==
    IF TruthyDict(pptW[w].user_choices)
    THEN pptW[w].user_choices[1]
    ELSE [k \in DOMAIN pptW[w].mapping[1] |-> None]

\* loop.exec_() returns; the choices to render with are fixed
PPTWorker_exec_return(w) ==
    /\ pptW[w].pc = "waiting"
    /\ ExecMayReturn(w)
    /\ pptW' = [pptW EXCEPT ![w].pc = "render",
                            ![w].used_choices = Some(UserChoices(w)),
                            ![w].phases = Append(@, "wait_end")]
    /\ UNCHANGED <<mw, extractW, outlineW, uiQueue, chat, ex, lk, rd, wp, rt, us>>

\* PPTWorker.run, Step-4: render_ppt and finished.emit
PPTWorker_render(w) ==
    /\ pptW[w].pc = "render"
    /\ \E o \in Outcomes :
        LET pair == IF o = "ok"
                    THEN OnReturn(Some("ai_ppt.pptx"))
                    ELSE OnException(None, "cannot save",
                                     "PPTGenerationError") IN
        /\ pptW' = [pptW EXCEPT ![w].pc = "done",
                                ![w].phases = @ \o <<"render_ppt", "finished">>,
                                ![w].emitted = Append(@, <<o, pair>>)]
        /\ uiQueue' = Post(Finished("ppt_finished", w, pair))
    /\ UNCHANGED <<mw, extractW, outlineW, chat, ex, lk, rd, wp, rt, us>>

\* PPTWorker._recv_choices, run by the UI thread for a queued
\* choices_provided delivery
_recv_choices ==
    /\ uiQueue # <<>>
    /\ Head(uiQueue).sig = "choices_provided"
    /\ LET ev == Head(uiQueue) IN
        pptW' = [pptW EXCEPT
            ![ev.w].user_choices = Some(ev.a),
            ![ev.w].recv = @ + 1,
            ![ev.w].loop_exit = IF pptW[ev.w].has_wait_loop THEN TRUE ELSE @]
    /\ uiQueue' = Tail(uiQueue)
    /\ UNCHANGED <<mw, extractW, outlineW, chat, ex, lk, rd, wp, rt, us>>

(***************************************************************************)
(* The session: the UI thread's handlers and the worker threads' steps     *)
(***************************************************************************)
Idle == [pc |-> "idle"]

Init ==
    /\ InitGui
    /\ chat = Idle
    /\ ex = Idle
    /\ lk = Idle
    /\ rd = Idle
    /\ wp = Idle
    /\ rt = Idle
    /\ us = Idle

Next ==
    \/ _on_template_ready
    \/ PromptBack
    \/ _on_prompt_ready
    \/ _on_extract_done
    \/ _on_outline_done
    \/ OutlineBack
    \/ _on_outline_confirmed
    \/ _on_images_ready
    \/ _recv_choices
    \/ _on_ppt_done
    \/ \E w \in Runs : ExtractWorker_run(w)
    \/ \E w \in Runs : OutlineWorker_run(w)
    \/ \E w \in Runs : PPTWorker_gen_content(w)
    \/ \E w \in Runs : PPTWorker_prepare(w)
    \/ \E w \in Runs : PPTWorker_assign_loop(w)
    \/ \E w \in Runs : PPTWorker_exec_enter(w)
    \/ \E w \in Runs : PPTWorker_exec_return(w)
    \/ \E w \in Runs : PPTWorker_render(w)

Spec == Init /\ [][Next]_vars

(***************************************************************************)
(* Claims about the session (specification Spec)                           *)
(***************************************************************************)
\* C1: a choice map delivered through choices_provided is never lost: no
\* PPTWorker is left inside its wait, with the loop's exit flag clear,
\* after _recv_choices has run for it (from such a state nothing can end
\* the wait, so render_ppt and finished never follow).
C1_ChoiceNeverLost ==
    \A w \in Runs :
        ~(pptW[w].recv > 0 /\ pptW[w].pc = "waiting" /\ ~pptW[w].loop_exit)

PhaseOrder ==
    <<"gen_content", "prepare_image_candidates", "images_ready",
      "wait_end", "render_ppt", "finished">>

IsPrefix(p, q) == Len(p) <= Len(q) /\ p = SubSeq(q, 1, Len(p))

InFlight(W) == {i \in Runs : W[i].pc # "none" /\ W[i].delivered = 0}

\* C3: at most one OutlineWorker and at most one PPTWorker is in flight
C3_OneInFlight ==
    /\ Cardinality(InFlight(outlineW)) <= 1
    /\ Cardinality(InFlight(pptW)) <= 1

\* C3 witness: a second worker of each kind was started in the session,
\* the second PPTWorker being in flight after the first delivered
C3_Witness ==
    /\ outlineW[2].delivered = 1
    /\ pptW[1].delivered = 1
    /\ 2 \in InFlight(pptW)

\* the completion pairs a run may deliver
ValidPair(e, empties) ==
    \/ e[1] = "ok" /\ e[2][1] # None /\ e[2][2] = None
    \/ /\ e[1] = "raise"
       /\ e[2][1] \in empties
       /\ e[2][2] # None
       /\ DOMAIN e[2][2][1] = {"message", "type"}

EmitsOnce(W, empties) ==
    \A w \in Runs :
        /\ W[w].pc = "done" =>
              Len(W[w].emitted) = 1 /\ ValidPair(W[w].emitted[1], empties)
        /\ W[w].pc # "done" => W[w].emitted = <<>>

\* C4: every run that returned has emitted finished exactly once, as
\* (result, None) or as (empty result, ErrorDetails)
C4_FinishedOnce ==
    /\ EmitsOnce(extractW, {Some("")})
    /\ EmitsOnce(outlineW, {Some("")})
    /\ EmitsOnce(pptW, {None})

\* C4 witness: one run ended by an exception, another by a result
C4_Witness ==
    /\ extractW[1].pc = "done" /\ extractW[1].emitted[1][1] = "raise"
    /\ pptW[1].pc = "done" /\ pptW[1].emitted[1][1] = "ok"

\* a step that constructs and starts worker w
OutlineStarted(w) == outlineW[w].pc = "none" /\ outlineW'[w].pc # "none"

PPTStarted(w) == pptW[w].pc = "none" /\ pptW'[w].pc # "none"

\* the (result, error) pair of the completion event of a worker
PairOf(worker) == worker.emitted[1][2]

\* the completion of the latest submission was handled and carried an
\* error (an extraction error, or an outline error or an empty outline),
\* and the user has not submitted since
Halted ==
    /\ mw.extract_worker # 0
    /\ extractW[mw.extract_worker].delivered > 0
    /\ \/ PairOf(extractW[mw.extract_worker])[2] # None
       \/ /\ mw.outline_worker # 0
          /\ outlineW[mw.outline_worker].delivered > 0
          /\ \/ PairOf(outlineW[mw.outline_worker])[2] # None
             \/ ~TruthyStr(PairOf(outlineW[mw.outline_worker])[1])

\* C25: the stages start in pipeline order only.  An OutlineWorker is
\* started only by the handler of an extraction completion event without
\* an error, with the markdown of that event; a PPTWorker is started only
\* by an outline confirmation (a click on the OUTLINE page, not an event)
\* with non-empty text, while template path and prompts are set, and with
\* these; after a completion that carried an error or an empty outline no
\* OutlineWorker and no PPTWorker is started until the user submits again
C25_PipelineOrder ==
    [][/\ \A w \in Runs : OutlineStarted(w) =>
            /\ uiQueue # <<>>
            /\ Head(uiQueue).sig = "extract_finished"
            /\ Head(uiQueue).b = None
            /\ outlineW'[w].md = Head(uiQueue).a
       /\ \A w \in Runs : PPTStarted(w) =>
            /\ mw.page = "OUTLINE"
            /\ uiQueue' = uiQueue
            /\ TruthyStr(pptW'[w].outline_md)
            /\ mw.template_path # None /\ mw.prompts # None
            /\ pptW'[w].template_path = mw.template_path
            /\ pptW'[w].prompts = mw.prompts
       /\ Halted => \A w \in Runs : ~OutlineStarted(w) /\ ~PPTStarted(w)]_vars

\* C25 witness: the first extraction ended with an error, the user
\* submitted again, and the second submission went on to an OutlineWorker
\* with the extracted markdown and to a PPTWorker with the confirmed text
C25_Witness ==
    /\ extractW[1].delivered = 1 /\ PairOf(extractW[1])[2] # None
    /\ extractW[2].delivered = 1 /\ PairOf(extractW[2])[2] = None
    /\ outlineW[1].md = PairOf(extractW[2])[1]
    /\ outlineW[2].pc = "none"
    /\ pptW[1].pc # "none" /\ pptW[1].outline_md = Some("edited outline")

(***************************************************************************)
(* _chat_completion (llm_client.py)                                        *)
(***************************************************************************)
\* the largest value of the retries argument that is tried
MaxRetries == 3

\* what client.chat.completions.create can do: return a response, or raise
CallOutcomes == {"ok", "RateLimitError", "Timeout", "APIError", "Exception"}

\* the code fence of markdown, three backquotes in the source; a TLA+ string
\* cannot hold a backquote, so an apostrophe stands for it
Fence == "'''"

\* resp.choices[0].message.content or ""
Contents ==
    {"", "# Slide 1", " # Slide 2\n", Fence \o "md\n# Slide 1\n" \o Fence,
     Fence \o "markdown\nmd\n" \o Fence \o " "}

\* _strip_md_fence
_strip_md_fence(text) ==
    LET second == Find(text, Fence, Len(Fence) + 1)
        part == SubSeq(text, Len(Fence) + 1, second - 1) IN
    IF StartsWith(text, Fence) /\ second > 0
    THEN RStrip(LStripSet(LStrip(LStripSet(part,
             {"m", "a", "r", "k", "d", "o", "w", "n"})), {"\n"}))
    ELSE Strip(text)

\* the exception classes of the first except clause
Retryable_WithAPIError(o) == o \in {"RateLimitError", "Timeout", "APIError"}

Retryable(o) == o \in {"RateLimitError", "Timeout"}

\* backoff = 2 ** attempt
Backoff(attempt) == 2 ^ attempt

LLMError(message, type) == [message |-> message, type |-> type]

ChatRaise(c, e) == [c EXCEPT !.pc = "done", !.raised = Some(e)]

\* _ensure_key("llm_key") and the OpenAI client; the for loop is entered
Chat_client ==
    /\ chat.pc = "start"
    /\ chat' = IF chat.has_key
               THEN [chat EXCEPT !.pc = "loop", !.attempt = 1]
               ELSE ChatRaise(chat, LLMError("missing llm_key", "MissingKey"))
    /\ UNCHANGED <<mw, extractW, outlineW, pptW, uiQueue, ex, lk, rd, wp, rt, us>>

\* one iteration of  for attempt in range(1, retries + 1)
Chat_attempt ==
    /\ chat.pc = "loop"
    /\ chat.attempt <= chat.retries
    /\ \E o \in CallOutcomes, content \in Contents :
        LET c == [chat EXCEPT !.calls = Append(@, o)] IN
        chat' =
            IF o = "ok"
            THEN [c EXCEPT !.pc = "done",
                           !.content = Some(content),
                           !.result = Some(_strip_md_fence(content))]
            ELSE IF Retryable(o)
            THEN IF chat.attempt >= chat.retries
                 THEN ChatRaise(c, LLMError("max retries", "RateLimit/Timeout"))
                 ELSE [c EXCEPT !.slept = Append(@, Backoff(chat.attempt)),
                                !.attempt = @ + 1]
            ELSE IF o = "APIError"
            THEN ChatRaise(c, LLMError("api error", "APIError"))
            ELSE ChatRaise(c, LLMError("unexpected", "UnexpectedError"))
    /\ UNCHANGED <<mw, extractW, outlineW, pptW, uiQueue, ex, lk, rd, wp, rt, us>>

\* the statement after the loop
Chat_exhausted ==
    /\ chat.pc = "loop"
    /\ chat.attempt > chat.retries
    /\ chat' = ChatRaise(chat, LLMError("max retries", "MaxRetryError"))
    /\ UNCHANGED <<mw, extractW, outlineW, pptW, uiQueue, ex, lk, rd, wp, rt, us>>

InitChat ==
    /\ InitGui
    /\ chat \in {[pc |-> "start", has_key |-> k, retries |-> r, attempt |-> 0,
                  calls |-> <<>>, slept |-> <<>>, content |-> None,
                  result |-> None, raised |-> None] :
                    k \in BOOLEAN, r \in 0..MaxRetries}
    /\ ex = Idle
    /\ lk = Idle
    /\ rd = Idle
    /\ wp = Idle
    /\ rt = Idle
    /\ us = Idle

NextChat == Chat_client \/ Chat_attempt \/ Chat_exhausted

SpecChat == InitChat /\ [][NextChat]_vars

MaxSlides == 2

MaxDeckShapes == 3

\* SHORT_LIMIT
SHORT_LIMIT == 10

\* the shapes a slide can hold: a picture (no text frame) and text frames
\* with their text and the alignment of their first paragraph
ShapeKinds ==
    {[has_text_frame |-> FALSE, text |-> "", align |-> "none"],
     [has_text_frame |-> TRUE, text |-> "", align |-> "none"],
     [has_text_frame |-> TRUE, text |-> " Agenda\n2025 ", align |-> "center"],
     [has_text_frame |-> TRUE, text |-> "Hello world", align |-> "right"]}

\* the slides with at most k shapes
SlidesUpTo(k) == UNION {[1..j -> ShapeKinds] : j \in 0..k}

RECURSIVE DecksOf(_, _)
\* the decks of n slides with at most k shapes in all
DecksOf(n, k) ==
    IF n = 0
    THEN {<<>>}
    ELSE UNION {{<<sl>> \o d : d \in DecksOf(n - 1, k - Len(sl))} :
                    sl \in SlidesUpTo(k)}

Decks == UNION {DecksOf(n, MaxDeckShapes) : n \in 1..MaxSlides}

\* _make_ph_name
_make_ph_name_ShapeOnly(slide_idx, shape_idx) ==
    "{{S1_P" \o ToString(shape_idx + 1) \o "}}"

_make_ph_name(slide_idx, shape_idx) ==
    "{{S" \o ToString(slide_idx + 1) \o "_P" \o ToString(shape_idx + 1) \o "}}"

\* _paragraph_align_tag
_paragraph_align_tag(align) ==
    IF align = "center" THEN "<div align='center'>"
    ELSE IF align = "right" THEN "<div align='right'>"
    ELSE ""

RECURSIVE RemoveCharIn(_, _, _, _)
\* s[lo - 1:hi].replace(c, ""), by halves
RemoveCharIn(s, c, lo, hi) ==
    IF lo > hi THEN ""
    ELSE IF lo = hi THEN (IF Char(s, lo) = c THEN "" ELSE Char(s, lo))
    ELSE LET mid == (lo + hi) \div 2 IN
         RemoveCharIn(s, c, lo, mid) \o RemoveCharIn(s, c, mid + 1, hi)

\* s.replace(c, "")
RemoveChar(s, c) == RemoveCharIn(s, c, 1, Len(s))

\* ln = len(shape.text_frame.text.replace("\n", "").strip())
TextLen(text) == Len(Strip(RemoveChar(text, "\n")))

\* "\n".join(lines)
JoinLines(lines) ==
    LET F[i \in 0..Len(lines)] ==
            IF i = 0 THEN ""
            ELSE IF i = 1 THEN lines[1]
            ELSE F[i - 1] \o "\n" \o lines[i]
    IN F[Len(lines)]

\* the items of a slide: (ph, ln, align_tag) of every shape with a text frame
SlideItems(slide, s_idx) ==
    LET F[i \in 0..Len(slide)] ==
            IF i = 0 THEN <<>>
            ELSE IF slide[i].has_text_frame
            THEN Append(F[i - 1],
                        [ph |-> _make_ph_name(s_idx, i - 1),
                         ln |-> TextLen(slide[i].text),
                         tag |-> _paragraph_align_tag(slide[i].align),
                         at |-> <<s_idx, i - 1>>])
            ELSE F[i - 1]
    IN F[Len(slide)]

\* the test that sends a shape to a sub-heading line
IsShort_Strict(ln) == ln < SHORT_LIMIT

IsShort(ln) == ln <= SHORT_LIMIT

\* ph [tag] <!--len:N-->
Segment(item) ==
    item.ph \o (IF item.tag # "" THEN " " \o item.tag ELSE "")
            \o " <!--len:" \o ToString(item.ln) \o "-->"

RECURSIVE ItemLines(_, _)
\* the while loop over the items of a slide, from item i on: a run of
\* short items becomes a block of sub-headings, a long item a bullet
ItemLines(items, i) ==
    IF i > Len(items) THEN <<>>
    ELSE IF IsShort(items[i].ln)
    THEN LET stop == {j \in i..Len(items) : ~IsShort(items[j].ln)}
             j == IF stop = {} THEN Len(items) + 1 ELSE Min(stop)
         IN [k \in 1..(j - i) |-> "### " \o Segment(items[i + k - 1])]
                \o ItemLines(items, j)
    ELSE <<"- " \o Segment(items[i])>> \o ItemLines(items, i + 1)

\* the lines one slide adds to md_lines
SlideLines_NoMarker(slide, s_idx) ==
    LET items == SlideItems(slide, s_idx) IN
    <<"## Slide " \o ToString(s_idx + 1)>> \o
        (IF items = <<>> THEN <<>> ELSE ItemLines(items, 1) \o <<"">>)

SlideLines(slide, s_idx) ==
    LET items == SlideItems(slide, s_idx) IN
    <<"## Slide " \o ToString(s_idx + 1)>> \o
        (IF items = <<>>
         THEN <<"(No text on this slide)\n">>
         ELSE ItemLines(items, 1) \o <<"">>)

\* pptx_to_markdown, the markdown
pptx_to_markdown(deck) ==
    LET F[n \in 0..Len(deck)] ==
            IF n = 0 THEN <<>> ELSE F[n - 1] \o SlideLines(deck[n], n - 1)
    IN JoinLines(F[Len(deck)])

\* pptx_to_markdown, ph_map: a later assignment to a key replaces an
\* earlier one
PlaceholderMap(deck) ==
    LET all == UNION {{it : it \in Range(SlideItems(deck[n], n - 1))} :
                        n \in 1..Len(deck)}
        Later(a, b) == a[1] > b[1] \/ (a[1] = b[1] /\ a[2] > b[2])
    IN [ph \in {it.ph : it \in all} |->
            (CHOOSE it \in all :
                /\ it.ph = ph
                /\ \A o \in all : o.ph = ph /\ o # it => Later(it.at, o.at)).at]

(***************************************************************************)
(* _split_markdown_slides (ppt_builder.py)                                 *)
(***************************************************************************)
\* the first position at or after i that holds no whitespace (\s*)
SkipWs(s, i) ==
    LET stop == {j \in i..Len(s) : Char(s, j) \notin Whitespace} IN
    IF stop = {} THEN Len(s) + 1 ELSE Min(stop)

\* the first position at or after i that holds no character of set
SkipSet(s, i, set) ==
    LET stop == {j \in i..Len(s) : Char(s, j) \notin set} IN
    IF stop = {} THEN Len(s) + 1 ELSE Min(stop)

\* re.I: the word slide in any case
MatchSlideWord(s, i) ==
    /\ i + 4 <= Len(s)
    /\ Char(s, i) \in {"s", "S"}
    /\ Char(s, i + 1) \in {"l", "L"}
    /\ Char(s, i + 2) \in {"i", "I"}
    /\ Char(s, i + 3) \in {"d", "D"}
    /\ Char(s, i + 4) \in {"e", "E"}

\* the positions where ^ matches under re.M
LineStarts(s) ==
    {i \in 1..Len(s) : i = 1 \/ Char(s, i - 1) = "\n"}

\* _md_slide_pat matched at position i:
\*     ^#{1,6}\s*slide\s*[-_ ]?\s*\d+\s*$      (re.I | re.M)
\* the position after the match (m.end() + 1), or 0 when it does not match
SlideHeadingEnd(s, i) ==
    LET hashEnd == SkipSet(s, i, {"#"})
        word == SkipWs(s, hashEnd)
        sep == SkipWs(s, word + 5)
        num == SkipWs(s, IF sep <= Len(s) /\ Char(s, sep) \in {"-", "_"}
                         THEN sep + 1 ELSE sep)
        numEnd == SkipSet(s, num, Digits)
        wsEnd == SkipWs(s, numEnd)
        eols == {j \in numEnd..(wsEnd - 1) : Char(s, j) = "\n"}
    IN IF /\ i \in LineStarts(s)
          /\ hashEnd - i \in 1..6
          /\ MatchSlideWord(s, word)
          /\ numEnd > num
          /\ (wsEnd > Len(s) \/ eols # {})
       THEN IF wsEnd > Len(s) THEN wsEnd ELSE Max(eols)
       ELSE 0

\* list(_md_slide_pat.finditer(md)): (start, end) of every match, in order
SlideHeadings(s) ==
    LET starts == {i \in 1..Len(s) : SlideHeadingEnd(s, i) > 0} IN
    [n \in 1..Cardinality(starts) |->
        <<Nth(starts, n), SlideHeadingEnd(s, Nth(starts, n))>>]

\* re.search(r"\n?---+\n", md)
HasRule(s) == Find(s, "---\n", 1) > 0

\* the first match of  \n?---+\n+  at or after position from: (start, end),
\* end being the position after the match; <<0, 0>> when there is none
NextRule(s, from) ==
    LET runs == {i \in from..Len(s) :
                    /\ MatchAt(s, "---", i)
                    /\ LET e == SkipSet(s, i, {"-"}) IN
                       e <= Len(s) /\ Char(s, e) = "\n"}
        withEol == {i - 1 : i \in {j \in runs : j - 1 >= from /\ Char(s, j - 1) = "\n"}}
    IN IF runs = {} THEN <<0, 0>>
       ELSE LET start == Min(runs \cup withEol)
                dash == IF Char(s, start) = "\n" THEN start + 1 ELSE start
            IN <<start, SkipSet(s, SkipSet(s, dash, {"-"}), {"\n"})>>

RECURSIVE SplitRules(_, _)
\* re.split(r"\n?---+\n+", md), from position from on
SplitRules(s, from) ==
    LET m == NextRule(s, from) IN
    IF m[1] = 0
    THEN <<SubSeq(s, from, Len(s))>>
    ELSE <<SubSeq(s, from, m[1] - 1)>> \o SplitRules(s, m[2])

\* [p.strip() for p in pages if p.strip()]
StripNonEmpty(pages) ==
    LET F[n \in 0..Len(pages)] ==
            IF n = 0 THEN <<>>
            ELSE IF Strip(pages[n]) = "" THEN F[n - 1]
            ELSE Append(F[n - 1], Strip(pages[n]))
    IN F[Len(pages)]

\* the bodies that follow the slide headings
HeadingBodies(s, matches) ==
    [i \in 1..Len(matches) |->
        SubSeq(s, matches[i][2],
               IF i + 1 <= Len(matches) THEN matches[i + 1][1] - 1 ELSE Len(s))]

\* _split_markdown_slides
_split_markdown_slides(text) ==
    LET md == RStripSet(LStripSet(text, {"\n"}), {"\n"})
        matches == SlideHeadings(md)
    IN IF md = "" THEN <<>>
       ELSE IF HasRule(md) THEN StripNonEmpty(SplitRules(md, 1))
       ELSE IF matches = <<>> THEN <<Strip(md)>>
       ELSE StripNonEmpty(HeadingBodies(md, matches))

(***************************************************************************)
(* One extraction of a deck, and the split of its markdown                 *)
(***************************************************************************)
\* markdown, ph_map = pptx_to_markdown(path)
Extract ==
    /\ ex.pc = "start"
    /\ ex' = [ex EXCEPT !.pc = "extracted",
                        !.markdown = pptx_to_markdown(ex.deck),
                        !.ph_map = PlaceholderMap(ex.deck)]
    /\ UNCHANGED <<mw, extractW, outlineW, pptW, uiQueue, chat, lk, rd, wp, rt, us>>

\* pages = _split_markdown_slides(markdown)
Split ==
    /\ ex.pc = "extracted"
    /\ ex' = [ex EXCEPT !.pc = "split",
                        !.pages = _split_markdown_slides(ex.markdown)]
    /\ UNCHANGED <<mw, extractW, outlineW, pptW, uiQueue, chat, lk, rd, wp, rt, us>>

InitExtract ==
    /\ InitGui
    /\ chat = Idle
    /\ ex \in {[pc |-> "start", deck |-> d, markdown |-> "",
                ph_map |-> <<>>, pages |-> <<>>] : d \in Decks}
    /\ lk = Idle
    /\ rd = Idle
    /\ wp = Idle
    /\ rt = Idle
    /\ us = Idle

NextExtract == Extract \/ Split

SpecExtract == InitExtract /\ [][NextExtract]_vars

(***************************************************************************)
(* Claims about extraction (specification SpecExtract)                     *)
(***************************************************************************)
\* text.split("\n")
SplitLines(text) ==
    LET eols == {i \in 1..Len(text) : Char(text, i) = "\n"} \cup {0, Len(text) + 1} IN
    [n \in 1..(Cardinality(eols) - 1) |->
        SubSeq(text, Nth(eols, n) + 1, Nth(eols, n + 1) - 1)]

\* the (slide_idx, shape_idx) of the text shapes of a deck
TextShapes(deck) ==
    {<<n - 1, i - 1>> : n \in 1..Len(deck), i \in 1..MaxDeckShapes} \cap
    {at \in (0..Len(deck)) \X (0..MaxDeckShapes) :
        /\ at[1] + 1 <= Len(deck)
        /\ at[2] + 1 <= Len(deck[at[1] + 1])
        /\ deck[at[1] + 1][at[2] + 1].has_text_frame}

\* the brace-delimited tokens that occur in a text
TokensIn(text) ==
    {SubSeq(text, i, Find(text, "}}", i) + 1) :
        i \in {j \in 1..Len(text) : MatchAt(text, "{{", j) /\ Find(text, "}}", j) > 0}}

Contains(text, part) == Find(text, part, 1) > 0

\* C6: the tokens are in bijection with the text shapes: two text shapes
\* have different tokens, each token is on exactly one line of the
\* markdown, and ph_map maps the tokens of the markdown, and nothing
\* else, back to the shape each was built from.
C6_TokenBijection ==
    ex.pc = "extracted" =>
        LET shapes == TextShapes(ex.deck)
            lines == SplitLines(ex.markdown)
        IN /\ \A a, b \in shapes :
                a # b => _make_ph_name(a[1], a[2]) # _make_ph_name(b[1], b[2])
           /\ \A a \in shapes :
                Cardinality({n \in DOMAIN lines :
                    Contains(lines[n], _make_ph_name(a[1], a[2]))}) = 1
           /\ DOMAIN ex.ph_map = TokensIn(ex.markdown)
           /\ Cardinality(DOMAIN ex.ph_map) = Cardinality(shapes)
           /\ \A a \in shapes : ex.ph_map[_make_ph_name(a[1], a[2])] = a

\* C6 witness: a deck with text shapes at the same index of two slides
C6_Witness ==
    /\ ex.pc = "extracted"
    /\ {<<0, 0>>, <<0, 1>>, <<1, 0>>} \subseteq TextShapes(ex.deck)

\* the trimmed lengths of the texts of ShapeKinds, counted by hand
KnownLength(text) ==
    CASE text = "" -> 0
      [] text = " Agenda\n2025 " -> 10
      [] text = "Hello world" -> 11

EndsWith(s, p) == Len(s) >= Len(p) /\ SubSeq(s, Len(s) - Len(p) + 1, Len(s)) = p

\* the lines of the markdown that belong to slide n: those after its
\* heading and before the next one
LinesOfSlide(lines, n) ==
    LET IsHead(k, m) == lines[k] = "## Slide " \o ToString(m)
        from == CHOOSE k \in DOMAIN lines : IsHead(k, n)
        next == {k \in DOMAIN lines : IsHead(k, n + 1)}
        to == IF next = {} THEN Len(lines) + 1 ELSE Min(next)
    IN SubSeq(lines, from + 1, to - 1)

SelectTokenLines(lines) == SelectSeq(lines, LAMBDA l : Contains(l, "{{"))

\* the text shapes of a slide, in shape order
TextShapesOf(slide) ==
    LET F[i \in 0..Len(slide)] ==
            IF i = 0 THEN <<>>
            ELSE IF slide[i].has_text_frame THEN Append(F[i - 1], i)
            ELSE F[i - 1]
    IN F[Len(slide)]

\* C7: per slide, the token lines are one per text shape, in shape order:
\* '### ' + token when the trimmed length is at most 10, '- ' + token
\* when it is greater, each ending in the hint len:N of that length.
C7_TokenLines ==
    ex.pc = "extracted" =>
        \A n \in 1..Len(ex.deck) :
            LET got == SelectTokenLines(LinesOfSlide(SplitLines(ex.markdown), n))
                shapes == TextShapesOf(ex.deck[n])
            IN /\ Len(got) = Len(shapes)
               /\ \A j \in DOMAIN shapes :
                    LET len == KnownLength(ex.deck[n][shapes[j]].text)
                        token == "{{S" \o ToString(n) \o "_P"
                                       \o ToString(shapes[j]) \o "}}"
                    IN /\ StartsWith(got[j],
                            (IF len <= 10 THEN "### " ELSE "- ") \o token)
                       /\ EndsWith(got[j], " <!--len:" \o ToString(len) \o "-->")

\* C7 witness: a slide with a shape of length 0, one of exactly 10 and one
\* of more than 10, the long one between the short ones
C7_Witness ==
    /\ ex.pc = "extracted"
    /\ \E n \in 1..Len(ex.deck) :
        /\ Len(ex.deck[n]) = 3
        /\ ex.deck[n][1].text = " Agenda\n2025 "
        /\ ex.deck[n][2].text = "Hello world"
        /\ ex.deck[n][3].has_text_frame /\ ex.deck[n][3].text = ""

\* C8: the markdown of a deck splits into as many chunks as the deck has
\* slides, chunk k holding the tokens of slide k and nothing of another
\* slide, or the no-text marker when slide k has no text shape.
C8_SlideCount ==
    ex.pc = "split" =>
        /\ Len(ex.pages) = Len(ex.deck)
        /\ \A n \in 1..Len(ex.deck) :
            IF TextShapesOf(ex.deck[n]) = <<>>
            THEN ex.pages[n] = "(No text on this slide)"
            ELSE TokensIn(ex.pages[n]) =
                    {"{{S" \o ToString(n) \o "_P" \o ToString(i) \o "}}" :
                        i \in Range(TextShapesOf(ex.deck[n]))}

\* C8 witness: a deck whose first slide has no text shape and whose
\* second slide has only empty text shapes
C8_Witness ==
    /\ ex.pc = "split"
    /\ Len(ex.deck) = 2
    /\ TextShapesOf(ex.deck[1]) = <<>>
    /\ Len(ex.deck[2]) = 2
    /\ \A i \in 1..2 : ex.deck[2][i].has_text_frame /\ ex.deck[2][i].text = ""

(***************************************************************************)
(* _lock_zero_len_lines and _unlock_and_dedup (llm_client.py)              *)
(***************************************************************************)
\* the lines of a markdown text that are tried
MaxMdLines == 3

LOCK == "<!--LOCK-->"

UNLOCK == "<!--/LOCK-->"

\* _split_lines_keep_eol: re.findall(r".*?(?:\n|$)", txt); every line with
\* its "\n", the unterminated rest of the text when there is one, and the
\* empty match at the end of the text
_split_lines_keep_eol(txt) ==
    LET eols == {i \in 1..Len(txt) : Char(txt, i) = "\n"} \cup {0}
        n == Cardinality(eols) - 1
        last == Max(eols)
        full == [k \in 1..n |-> SubSeq(txt, Nth(eols, k) + 1, Nth(eols, k + 1))]
    IN full \o (IF last < Len(txt) THEN <<SubSeq(txt, last + 1, Len(txt))>>
                ELSE <<>>) \o <<"">>

\* _len_pat matched at position i:  <!--\s*len:(\d+)\s*-->
\* <<the position after the match, group(1)>>, or <<0, "">>
LenPatAt(s, i) ==
    LET word == SkipWs(s, i + 4)
        num == word + 4
        numEnd == SkipSet(s, num, Digits)
        close == SkipWs(s, numEnd)
    IN IF /\ MatchAt(s, "<!--", i)
          /\ MatchAt(s, "len:", word)
          /\ numEnd > num
          /\ MatchAt(s, "-->", close)
       THEN <<close + 3, SubSeq(s, num, numEnd - 1)>>
       ELSE <<0, "">>

\* _len_pat.search(s) from position from on: <<start, end, group(1)>>, or
\* <<0, 0, "">>
LenPatSearch(s, from) ==
    LET hits == {i \in from..Len(s) : LenPatAt(s, i)[1] > 0} IN
    IF hits = {} THEN <<0, 0, "">>
    ELSE <<Min(hits)>> \o LenPatAt(s, Min(hits))

\* m and m.group(1) == "0"
IsZeroLen_AnyHint(ln) == LenPatSearch(ln, 1)[1] > 0

IsZeroLen(ln) ==
    LET m == LenPatSearch(ln, 1) IN m[1] > 0 /\ m[3] = "0"

\* _find_zero_len_lines: (idx, line without its "\n") of the len:0 lines
_find_zero_len_lines(md) ==
    LET lines == _split_lines_keep_eol(md)
        zero == {i \in DOMAIN lines : IsZeroLen(lines[i])}
    IN [k \in 1..Cardinality(zero) |->
            <<Nth(zero, k) - 1, RStripSet(lines[Nth(zero, k)], {"\n"})>>]

\* "".join(lines)
Concat(lines) ==
    LET F[i \in 0..Len(lines)] ==
            IF i = 0 THEN "" ELSE F[i - 1] \o lines[i]
    IN F[Len(lines)]

\* lines[i - 1] after the loop of _lock_zero_len_lines: the origin of the
\* entry of zero with that index between the sentinels, or the line as
\* it was
LockedLine(zero, lines, i) ==
    IF \E z \in Range(zero) : z[1] = i - 1
    THEN LOCK \o (CHOOSE z \in Range(zero) : z[1] = i - 1)[2] \o UNLOCK \o "\n"
    ELSE lines[i]

\* the loop and the return of _lock_zero_len_lines
LockLines(zero, lines) ==
    <<Concat([i \in DOMAIN lines |-> LockedLine(zero, lines, i)]), zero>>

\* _lock_zero_len_lines: <<locked text, zero>>
_lock_zero_len_lines(md) ==
    LockLines(_find_zero_len_lines(md), _split_lines_keep_eol(md))

\* the end sentinel that closes a span opened at position open: the
\* pattern (.*?) takes the nearest one
SpanClose_Greedy(s, open) ==
    LET hits == {i \in (open + Len(LOCK))..Len(s) : MatchAt(s, UNLOCK, i)} IN
    IF hits = {} THEN 0 ELSE Max(hits)

SpanClose(s, open) == Find(s, UNLOCK, open + Len(LOCK))

RECURSIVE RemoveLocks(_, _)
\* _lock_pat.sub(lambda m: m.group(1), md), from position from on
RemoveLocks(s, from) ==
    LET open == Find(s, LOCK, from)
        close == IF open = 0 THEN 0 ELSE SpanClose(s, open)
    IN IF close = 0
       THEN SubSeq(s, from, Len(s))
       ELSE SubSeq(s, from, open - 1)
                \o SubSeq(s, open + Len(LOCK), close - 1)
                \o RemoveLocks(s, close + Len(UNLOCK))

RECURSIVE RemoveLenHints(_, _)
\* _len_pat.sub("", s), from position from on
RemoveLenHints(s, from) ==
    LET m == LenPatSearch(s, from) IN
    IF m[1] = 0
    THEN SubSeq(s, from, Len(s))
    ELSE SubSeq(s, from, m[1] - 1) \o RemoveLenHints(s, m[2])

\* key = _len_pat.sub("", ln).strip()
DedupKey(ln) == Strip(RemoveLenHints(ln, 1))

\* out_lines: the lines whose positions are in kept, in their order
KeptLines(lines, kept) ==
    [k \in 1..Cardinality(kept) |-> lines[Nth(kept, k)]]

\* the loop of step 2, zero the positions of the len:0 lines and key their
\* keys: a len:0 line whose key is in seen is skipped
DropSeen(lines, zero, key) ==
    KeptLines(lines, DOMAIN lines \
                     {i \in zero : \E j \in zero : j < i /\ key[j] = key[i]})

DedupKeys(lines, zero) ==
    DropSeen(lines, zero, [i \in zero |-> DedupKey(lines[i])])

\* step 2 of _unlock_and_dedup: of the len:0 lines with the same key only
\* the first is kept
Dedup(lines) == DedupKeys(lines, {i \in DOMAIN lines : IsZeroLen(lines[i])})

\* step 3 of _unlock_and_dedup
StripLenTags_ZeroOnly(lines) ==
    [i \in DOMAIN lines |->
        IF IsZeroLen(lines[i])
        THEN RemoveLenHints(lines[i], 1)
        ELSE lines[i]]

StripLenTags(lines) ==
    [i \in DOMAIN lines |->
        IF LenPatSearch(lines[i], 1)[1] > 0
        THEN RemoveLenHints(lines[i], 1)
        ELSE lines[i]]

\* step 3 and the return of _unlock_and_dedup
JoinOut(out_lines, strip_len_tag) ==
    RStrip(Concat(IF strip_len_tag THEN StripLenTags(out_lines) ELSE out_lines))

\* _unlock_and_dedup (zero_lines is not read by the function)
_unlock_and_dedup(md, zero_lines, strip_len_tag) ==
    JoinOut(Dedup(_split_lines_keep_eol(RemoveLocks(md, 1))), strip_len_tag)

(***************************************************************************)
(* gen_outline / gen_content around a generation call (llm_client.py)      *)
(***************************************************************************)
\* the lines a markdown may be made of: two len:0 lines as the extractor
\* writes them for empty shapes (the second with a blank at its end), a
\* line with a non-zero hint, an empty line, a line with a stray sentinel
MdLines ==
    { "### {{S1_P1}} <!--len:0-->",
      "### {{S1_P2}} <!--len:0--> ",
      "- {{S1_P3}} <!--len:12-->",
      "",
      "<!--LOCK-->## Slide 1" }

\* the lines a reply of the service may add: body text, a repeated locked
\* line, a sentinel, a locked line repeated as a bullet, a hint written
\* around another hint
GenLines ==
    { "Generated body text",
      "### {{S1_P1}} <!--len:0-->",
      "<!--/LOCK-->",
      "- {{S1_P1}} <!--len:0-->",
      "Text <!--len<!--len:7-->:7-->" }

RECURSIVE LineListsOf(_, _)
\* the sequences of at most n lines of S
LineListsOf(S, n) ==
    IF n = 0 THEN {<<>>}
    ELSE LET shorter == LineListsOf(S, n - 1) IN
         shorter \cup {Append(l, x) : l \in shorter, x \in S}

Markdowns == {JoinLines(l) : l \in LineListsOf(MdLines, MaxMdLines)}

\* the lines of a text as str.splitlines() gives them for "\n"
TextLines(text) ==
    LET pieces == SplitLines(text) IN
    IF text = "" THEN <<>>
    ELSE IF EndsWith(text, "\n") THEN SubSeq(pieces, 1, Len(pieces) - 1)
    ELSE pieces

\* what a reply does to the lines it was sent: nothing, or one line
\* outside the lock spans replaced or deleted, or one line added
Edits(lines, locked_at) ==
    {[op |-> "none", at |-> 0, line |-> ""]}
        \cup {[op |-> "replace", at |-> i, line |-> g] :
                i \in DOMAIN lines \ locked_at, g \in GenLines}
        \cup {[op |-> "delete", at |-> i, line |-> ""] :
                i \in DOMAIN lines \ locked_at}
        \cup {[op |-> "insert", at |-> i, line |-> g] :
                i \in 1..(Len(lines) + 1), g \in GenLines}

ApplyEdit(lines, e) ==
    CASE e.op = "none" -> lines
      [] e.op = "replace" -> [lines EXCEPT ![e.at] = e.line]
      [] e.op = "delete" ->
            SubSeq(lines, 1, e.at - 1) \o SubSeq(lines, e.at + 1, Len(lines))
      [] e.op = "insert" ->
            SubSeq(lines, 1, e.at - 1) \o <<e.line>>
                \o SubSeq(lines, e.at, Len(lines))

\* locked, zero = _lock_zero_len_lines(template_md)
Lock ==
    /\ lk.pc = "start"
    /\ LET res == _lock_zero_len_lines(lk.md) IN
        lk' = [lk EXCEPT !.pc = "locked",
                         !.locked = res[1],
                         !.zero = res[2]]
    /\ UNCHANGED <<mw, extractW, outlineW, pptW, uiQueue, chat, ex, rd, wp, rt, us>>

\* raw = _chat_completion(sys_prompt, usr_prompt): the reply to the locked
\* text
Generate ==
    /\ lk.pc = "locked"
    /\ LET lines == TextLines(lk.locked)
           locked_at == {lk.zero[k][1] + 1 : k \in DOMAIN lk.zero}
       IN \E e \in Edits(lines, locked_at) :
            lk' = [lk EXCEPT !.pc = "generated",
                             !.edit = e,
                             !.raw = JoinLines(ApplyEdit(lines, e))
                                        \o (IF EndsWith(lk.locked, "\n")
                                            THEN "\n" ELSE "")]
    /\ UNCHANGED <<mw, extractW, outlineW, pptW, uiQueue, chat, ex, rd, wp, rt, us>>

\* _unlock_and_dedup(raw, zero, strip_len_tag=False) in gen_outline,
\* _unlock_and_dedup(raw, zero, strip_len_tag=True) in gen_content
Unlock ==
    /\ lk.pc = "generated"
    /\ \E strip_len_tag \in BOOLEAN :
        lk' = [lk EXCEPT !.pc = "unlocked",
                         !.strip_len_tag = strip_len_tag,
                         !.out = _unlock_and_dedup(lk.raw, lk.zero, strip_len_tag)]
    /\ UNCHANGED <<mw, extractW, outlineW, pptW, uiQueue, chat, ex, rd, wp, rt, us>>

InitLock ==
    /\ InitGui
    /\ chat = Idle
    /\ ex = Idle
    /\ lk \in {[pc |-> "start", md |-> m, locked |-> "", zero |-> <<>>,
                edit |-> [op |-> "none", at |-> 0, line |-> ""],
                raw |-> "", strip_len_tag |-> FALSE, out |-> ""] :
                    m \in Markdowns}
    /\ rd = Idle
    /\ wp = Idle
    /\ rt = Idle
    /\ us = Idle

NextLock == Lock \/ Generate \/ Unlock

SpecLock == InitLock /\ [][NextLock]_vars

(***************************************************************************)
(* Claims about the lock round trip (SpecLock)                             *)
(***************************************************************************)
\* a line that carries a zero length hint, as the lines tried here write it
CarriesZeroHint(line) == Contains(line, "<!--len:0-->")

NoSentinel(text) == ~Contains(text, LOCK) /\ ~Contains(text, UNLOCK)

ZeroLinesOf(text) == SelectSeq(TextLines(text), CarriesZeroHint)

\* the reply was for gen_outline and has been unlocked
OutlineUnlocked == lk.pc = "unlocked" /\ ~lk.strip_len_tag

\* C9 as stated: for any markdown M and any generation step that changes
\* only text outside the lock spans, the zero-length-hint lines of M are
\* in the unlocked text byte-identical, once for each occurrence in M and
\* in the same order.
C9_AnyMarkdown ==
    OutlineUnlocked =>
        LET zero == ZeroLinesOf(lk.md)
            OfM(line) == line \in Range(zero)
        IN SelectSeq(TextLines(lk.out), OfM) = zero

\* the zero-length-hint lines of a text carry one token each, no two the
\* same
DistinctTokens(text) ==
    LET zero == ZeroLinesOf(text) IN
    /\ \A i \in DOMAIN zero : Cardinality(TokensIn(zero[i])) = 1
    /\ \A i, j \in DOMAIN zero : i # j => TokensIn(zero[i]) # TokensIn(zero[j])

\* the reply adds neither a sentinel nor a line with a zero length hint
CleanEdit(e) ==
    e.op \in {"replace", "insert"} =>
        ~CarriesZeroHint(e.line) /\ NoSentinel(e.line)

\* got is want, or want without blanks at its end
SameButTrailingBlanks(got, want) ==
    /\ StartsWith(want, got)
    /\ \A i \in (Len(got) + 1)..Len(want) : Char(want, i) \in Whitespace

C9_Covered ==
    /\ OutlineUnlocked
    /\ NoSentinel(lk.md)
    /\ DistinctTokens(lk.md)
    /\ CleanEdit(lk.edit)

\* C9, amended: for a markdown M without lock sentinels whose
\* zero-length-hint lines carry pairwise different tokens, and a generation
\* step that replaces, deletes or adds whole lines outside the lock spans
\* and adds neither a sentinel nor a zero-length-hint line, the
\* zero-length-hint lines of the unlocked text are those of M,
\* byte-identical, once each and in the same order; only when the last of
\* them is the last line of the text does it lose the blanks at its end.
C9_LockRoundTrip ==
    C9_Covered =>
        LET want == ZeroLinesOf(lk.md)
            lines == TextLines(lk.out)
            got == ZeroLinesOf(lk.out)
        IN /\ Len(got) = Len(want)
           /\ \A k \in DOMAIN got :
                \/ got[k] = want[k]
                \/ /\ k = Len(got)
                   /\ lines[Len(lines)] = got[k]
                   /\ SameButTrailingBlanks(got[k], want[k])

C9_Witness ==
    /\ C9_Covered
    /\ Len(ZeroLinesOf(lk.md)) = 2
    /\ lk.edit.op = "replace"
    /\ ZeroLinesOf(lk.out) = ZeroLinesOf(lk.md)

\* C10: _lock_zero_len_lines wraps exactly the lines whose length hint is
\* 0, each in one start and one end sentinel, leaves every other line
\* byte-identical and in place (same number of lines, same order), and
\* returns the 0-based indices of the wrapped lines with their original
\* text, in order.
C10_LockFrame ==
    lk.pc = "locked" =>
        LET before == TextLines(lk.md)
            after == TextLines(lk.locked)
            zero == {i \in DOMAIN before : CarriesZeroHint(before[i])}
        IN /\ Len(after) = Len(before)
           /\ \A i \in DOMAIN before :
                after[i] = IF i \in zero
                           THEN "<!--LOCK-->" \o before[i] \o "<!--/LOCK-->"
                           ELSE before[i]
           /\ lk.zero = [k \in 1..Cardinality(zero) |->
                            <<Nth(zero, k) - 1, before[Nth(zero, k)]>>]
           /\ (before # <<>> /\ Len(before) \notin zero) =>
                (EndsWith(lk.md, "\n") <=> EndsWith(lk.locked, "\n"))

C10_Witness ==
    /\ lk.pc = "locked"
    /\ Len(lk.zero) = 2
    /\ lk.zero[1][1] = 1
    /\ ~CarriesZeroHint(TextLines(lk.md)[1])
    /\ Contains(TextLines(lk.md)[1], "len:")

(***************************************************************************)
(* Claims about _unlock_and_dedup (SpecLock)                               *)
(***************************************************************************)
RECURSIVE RemoveAll(_, _, _)
\* s from position from on, without the occurrences of the texts of P,
\* taken from left to right
RemoveAll(s, P, from) ==
    LET hits == {i \in from..Len(s) : \E p \in P : MatchAt(s, p, i)} IN
    IF hits = {} THEN SubSeq(s, from, Len(s))
    ELSE LET i == Min(hits)
             p == CHOOSE q \in P : MatchAt(s, q, i)
         IN SubSeq(s, from, i - 1) \o RemoveAll(s, P, i + Len(p))

\* the reply has regular sentinels only: those of the locked lines
RegularSentinels == NoSentinel(lk.md) /\ NoSentinel(lk.edit.line)

\* the lines of the reply, sentinels taken off
PlainLines(text) == TextLines(RemoveAll(text, {LOCK, UNLOCK}, 1))

\* the lines without blanks at their ends, the empty ones left out
Trimmed(lines) ==
    LET NotEmpty(l) == l # "" IN
    SelectSeq([i \in DOMAIN lines |-> RStrip(lines[i])], NotEmpty)

\* the lines that stay when every zero-length-hint line whose token is on
\* an earlier zero-length-hint line is taken out
FirstOfEachToken(lines) ==
    LET Repeats(i) ==
            /\ CarriesZeroHint(lines[i])
            /\ \E j \in 1..(i - 1) :
                /\ CarriesZeroHint(lines[j])
                /\ TokensIn(lines[j]) \cap TokensIn(lines[i]) # {}
        kept == {i \in DOMAIN lines : ~Repeats(i)}
    IN [k \in 1..Cardinality(kept) |-> lines[Nth(kept, k)]]

\* C11: _unlock_and_dedup removes exactly the zero-length-hint lines whose
\* token is already on an earlier zero-length-hint line, whatever marker,
\* tag or text the later line has: each token is left on at most one
\* zero-length-hint line, the first, and no other line is removed.
C11_DedupByToken ==
    OutlineUnlocked /\ RegularSentinels =>
        Trimmed(TextLines(lk.out)) = Trimmed(FirstOfEachToken(PlainLines(lk.raw)))

\* C12: _unlock_and_dedup is idempotent: applied to its own result, with
\* the same locked-line list and the same strip_len_tag, it returns that
\* result, also for texts with nested or unpaired sentinels and repeated
\* zero-length-hint lines.
C12_Idempotent ==
    lk.pc = "unlocked" =>
        _unlock_and_dedup(lk.out, lk.zero, lk.strip_len_tag) = lk.out

\* the hint comments that the lines tried here carry
HintTexts == {"<!--len:0-->", "<!--len:12-->", "<!--len:7-->"}

ShowsHint(line) == \E h \in HintTexts : Contains(line, h)

WithoutHints(line) == RemoveAll(line, HintTexts, 1)

\* the lines gen_outline returns for the reply
OutlineLines == TextLines(_unlock_and_dedup(lk.raw, lk.zero, FALSE))

\* gen_outline: every line of the result is a line of the reply as it is,
\* the last one but for blanks at its end
KeepsHints ==
    LET got == TextLines(lk.out)
        sent == TextLines(RemoveLocks(lk.raw, 1))
    IN \A i \in DOMAIN got :
        \E j \in DOMAIN sent :
            \/ got[i] = sent[j]
            \/ i = Len(got) /\ SameButTrailingBlanks(got[i], sent[j])

\* gen_content: the result is the lines keep of gen_outline's result, each
\* without its hint comments, in the same order, up to blanks at the end
StripsOnlyHints(keep) ==
    lk.out = RStrip(JoinLines([i \in DOMAIN keep |-> WithoutHints(keep[i])]))

MaxPageLines == 3

\* the character U+2022 that _clean_md_line writes before a list item and
\* _placeholder_only_pat accepts as a list marker; a TLA+ string holds
\* ASCII only, so the sign @, which no input contains, stands for it
BULLET == "@"

\* the end of ([-*]|[0-9]+[.)]) at position i, extra being the further
\* one-character markers the pattern accepts; i itself when there is none
MarkerEnd(s, i, extra) ==
    LET numEnd == SkipSet(s, i, Digits) IN
    IF i <= Len(s) /\ Char(s, i) \in {"-", "*"} \cup extra THEN i + 1
    ELSE IF numEnd > i /\ numEnd <= Len(s) /\ Char(s, numEnd) \in {".", ")"}
         THEN numEnd + 1
         ELSE i

\* _bullet_pat.match(s).end() + 1, or 0 when the line is no list item
BulletPatEnd(s) ==
    LET start == SkipWs(s, 1)
        mark == MarkerEnd(s, start, {})
        rest == SkipWs(s, mark)
    IN IF mark > start /\ rest > mark THEN rest ELSE 0

_clean_md_line(line) ==
    LET stripped == Strip(line)
        text == IF StartsWith(stripped, "#")
                THEN Strip(LStripSet(stripped, {"#"}))
                ELSE stripped
        m == BulletPatEnd(text)
    IN IF m > 0
       THEN BULLET \o " " \o Strip(SubSeq(text, m, Len(text)))
       ELSE text

\* \{\{S\d+_P\d+\}\} under re.I at position i: the position after it, or 0
TokenPatEnd(s, i) ==
    LET s1 == i + 3
        e1 == SkipSet(s, s1, Digits)
        s2 == e1 + 2
        e2 == SkipSet(s, s2, Digits)
    IN IF /\ MatchAt(s, "{{", i)
          /\ i + 2 <= Len(s) /\ Char(s, i + 2) \in {"S", "s"}
          /\ e1 > s1
          /\ MatchAt(s, "_", e1)
          /\ e1 + 1 <= Len(s) /\ Char(s, e1 + 1) \in {"P", "p"}
          /\ e2 > s2
          /\ MatchAt(s, "}}", e2)
       THEN e2 + 2
       ELSE 0

\* bool(_placeholder_only_pat.match(line))
_is_placeholder_only(line) ==
    LET start == SkipWs(line, 1)
        tok == SkipWs(line, MarkerEnd(line, start, {BULLET}))
        tokEnd == TokenPatEnd(line, tok)
        tag == SkipWs(line, tokEnd)
        gt == Find(line, ">", tag + 1)
    IN /\ tokEnd > 0
       /\ \/ tag = Len(line) + 1
          \/ /\ MatchAt(line, "<", tag)
             /\ gt > tag + 1
             /\ SkipWs(line, gt + 1) = Len(line) + 1

\* a shape of a slide: the title placeholder, any other shape with a text
\* frame, or a picture (has_text_frame is False); text is text_frame.text
Shape(kind, text) == [kind |-> kind, text |-> text]

\* slide.shapes.add_textbox(...): a new shape with an empty text frame,
\* appended to the slide's shapes
AddTextbox(shapes, text) == Append(shapes, Shape("text", text))

\* getattr(slide.shapes, "title", None): the position of the title
\* placeholder, 0 for None
TitleShape(slide) ==
    LET t == {i \in DOMAIN slide.shapes : slide.shapes[i].kind = "title"} IN
    IF t = {} THEN 0 ELSE Min(t)

\* [sh.text_frame for sh in slide.shapes if sh.has_text_frame and
\*  sh != title_tf], as positions in slide.shapes
BodyFrames(slide) ==
    LET found == {i \in DOMAIN slide.shapes :
                    /\ slide.shapes[i].kind \in {"title", "text"}
                    /\ i # TitleShape(slide)}
    IN [k \in 1..Cardinality(found) |-> Nth(found, k)]

\* for tf in body_frames: tf.clear()
ClearFrames_None(shapes, body_frames) == shapes

ClearFrames(shapes, body_frames) ==
    [i \in DOMAIN shapes |->
        IF i \in Range(body_frames) THEN [shapes[i] EXCEPT !.text = ""]
        ELSE shapes[i]]

\* the loop over lines[1:], frame_idx counting from 0
RECURSIVE WriteLines(_, _, _, _)
WriteLines(shapes, body_frames, rest, frame_idx) ==
    IF rest = <<>> THEN shapes
    ELSE LET cleaned == _clean_md_line(Head(rest)) IN
         IF _is_placeholder_only(cleaned)
         THEN WriteLines(shapes, body_frames, Tail(rest), frame_idx + 1)
         ELSE IF frame_idx >= Len(body_frames)
         THEN WriteLines(shapes, body_frames, Tail(rest), frame_idx + 1)
         ELSE LET tf == body_frames[frame_idx + 1]
                  \* tf.add_paragraph() if tf.text else tf.paragraphs[0]
                  text == IF shapes[tf].text # ""
                          THEN shapes[tf].text \o "\n" \o cleaned
                          ELSE cleaned
              IN WriteLines([shapes EXCEPT ![tf].text = text], body_frames,
                            Tail(rest), frame_idx + 1)

_write_page_to_slide(slide, lines) ==
    IF lines = <<>> THEN slide
    ELSE
    LET title_tf == TitleShape(slide)
        found == BodyFrames(slide)
        shapes0 == IF found = <<>> THEN AddTextbox(slide.shapes, "")
                   ELSE slide.shapes
        body_frames == IF found = <<>> THEN <<Len(slide.shapes) + 1>>
                       ELSE found
        cleared == ClearFrames(shapes0, body_frames)
        first_line == _clean_md_line(lines[1])
        titled == IF _is_placeholder_only(first_line) THEN cleared
                  ELSE IF title_tf # 0
                  THEN [cleared EXCEPT ![title_tf].text = first_line]
                  ELSE AddTextbox(cleared, first_line)
    IN [slide EXCEPT !.shapes = WriteLines(titled, body_frames, Tail(lines), 0)]

\* the slides a page is written to: with and without a title placeholder,
\* with two, one and no other text frame, every text frame holding the
\* template's own text
WriteSlides == {
    [shapes |-> <<Shape("title", "Old title"), Shape("text", "Old body"),
                  Shape("text", "Old note")>>, rels |-> <<>>],
    [shapes |-> <<Shape("text", "Old body"), Shape("picture", "")>>,
     rels |-> <<>>],
    [shapes |-> <<Shape("title", "Old title"), Shape("picture", "")>>,
     rels |-> <<>>],
    [shapes |-> <<>>, rels |-> <<>>],
    [shapes |-> <<Shape("picture", ""), Shape("text", "Old body"),
                  Shape("title", "Old title"), Shape("text", "Old note")>>,
     rels |-> <<>>] }

\* the non-blank lines a chunk can hold
PageLineTexts == {
    "### Quarterly report",
    "- First point",
    "### {{S1_P1}}",
    "2) {{s1_p2}} <div align='center'>",
    "Plain text {{S1_P3}}" }

PageLines == UNION {[1..n -> PageLineTexts] : n \in 0..MaxPageLines}

InitWrite ==
    /\ InitGui
    /\ chat = Idle
    /\ ex = Idle
    /\ lk = Idle
    /\ rd = Idle
    /\ rt = Idle
    /\ us = Idle
    /\ wp \in {[pc |-> "start", slide |-> sl, lines |-> ls, out |-> sl] :
                sl \in WriteSlides, ls \in PageLines}

\* _write_page_to_slide(slide, lines)
WritePage ==
    /\ wp.pc = "start"
    /\ wp' = [wp EXCEPT !.pc = "written",
                        !.out = _write_page_to_slide(wp.slide, wp.lines)]
    /\ UNCHANGED <<mw, extractW, outlineW, pptW, uiQueue, chat, ex, lk, rd, rt, us>>

NextWrite == WritePage

SpecWrite == InitWrite /\ [][NextWrite]_vars

(***************************************************************************)
(* Claims about _write_page_to_slide                                       *)
(***************************************************************************)
\* the lines of PageLineTexts that hold a placeholder token and nothing
\* else but a list marker and one tag
MarkerLines == {"### {{S1_P1}}", "2) {{s1_p2}} <div align='center'>"}

\* what a line of PageLineTexts reads once its Markdown marker is removed
CleanedText(line) ==
    CASE line = "### Quarterly report" -> "Quarterly report"
      [] line = "- First point" -> BULLET \o " First point"
      [] line = "### {{S1_P1}}" -> "{{S1_P1}}"
      [] line = "2) {{s1_p2}} <div align='center'>" ->
            BULLET \o " {{s1_p2}} <div align='center'>"
      [] line = "Plain text {{S1_P3}}" -> "Plain text {{S1_P3}}"

\* the positions of the body frames of a call, in shape order: the text
\* frames of the slide other than its title, or the one textbox the call
\* creates when the slide has none
PageFrames(slide) ==
    IF BodyFrames(slide) = <<>> THEN <<Len(slide.shapes) + 1>>
    ELSE BodyFrames(slide)

\* the texts of the body frames after the call
FrameTexts ==
    LET frames == PageFrames(wp.slide) IN
    [k \in 1..Len(frames) |-> wp.out.shapes[frames[k]].text]

\* frame k holds line k of body when that line exists and is no marker
\* line, and is empty otherwise
ExpectedFrames(n, body) ==
    [k \in 1..n |->
        IF k <= Len(body) /\ body[k] \notin MarkerLines
        THEN CleanedText(body[k])
        ELSE ""]

\* the text of the title after the call: of the title placeholder, or of
\* the textbox created last when the slide has no title placeholder
TitleText ==
    LET t == TitleShape(wp.slide) IN
    IF t # 0 THEN Some(wp.out.shapes[t].text)
    ELSE IF Len(wp.out.shapes) > Len(wp.slide.shapes) + Len(PageFrames(wp.slide))
                                   - Len(BodyFrames(wp.slide))
         THEN Some(wp.out.shapes[Len(wp.out.shapes)].text)
         ELSE None

\* C18: the first line of the chunk that is not placeholder-only is written
\* as the title, into the title shape or a new textbox, also when
\* placeholder-only lines precede it, and only the lines after it are
\* routed to the body frames
C18_FirstTextLineIsTitle ==
    wp.pc = "written" /\ (\E i \in DOMAIN wp.lines : wp.lines[i] \notin MarkerLines) =>
        LET f == Min({i \in DOMAIN wp.lines : wp.lines[i] \notin MarkerLines})
        IN /\ TitleText = Some(CleanedText(wp.lines[f]))
           /\ FrameTexts = ExpectedFrames(Len(PageFrames(wp.slide)),
                                          SubSeq(wp.lines, f + 1, Len(wp.lines)))

\* C19: line k after the first targets body frame k in shape order: a
\* placeholder-only line leaves the frame empty, any other line becomes its
\* only text, a line beyond the last frame is dropped, a frame without a
\* line ends up empty, and no shape but the title and the body frames
\* changes
C19_FrameRouting ==
    wp.pc = "written" /\ wp.lines # <<>> =>
        LET frames == PageFrames(wp.slide) IN
        /\ FrameTexts = ExpectedFrames(Len(frames), Tail(wp.lines))
        /\ Len(wp.out.shapes) <= Len(wp.slide.shapes) + 2
        /\ \A i \in DOMAIN wp.slide.shapes :
                i \notin Range(frames) \cup {TitleShape(wp.slide)} =>
                    wp.out.shapes[i] = wp.slide.shapes[i]
        /\ \A i \in DOMAIN wp.out.shapes \ DOMAIN wp.slide.shapes :
                wp.out.shapes[i].kind = "text"

\* a title, a marker line that leaves the first body frame empty, and a
\* list item written to the second body frame in place of the old note
C19_Witness ==
    /\ wp.pc = "written"
    /\ wp.slide.shapes = <<Shape("title", "Old title"), Shape("text", "Old body"),
                           Shape("text", "Old note")>>
    /\ wp.lines = <<"### Quarterly report", "### {{S1_P1}}", "- First point">>
    /\ wp.out.shapes = <<Shape("title", "Quarterly report"), Shape("text", ""),
                         Shape("text", BULLET \o " First point")>>

(***************************************************************************)
(* prepare_image_candidates and render_ppt (ppt_builder.py), as            *)
(* PPTWorker.run calls them (worker.py)                                    *)
(***************************************************************************)
\* the picture relationships of a template at most
MaxPictures == 2

IMAGE == "http://schemas.openxmlformats.org/officeDocument/2006/relationships/image"

SLIDE_LAYOUT == "http://schemas.openxmlformats.org/officeDocument/2006/relationships/slideLayout"

\* one relationship of a slide part: rel.rId, rel.reltype and the name of
\* the part rel.target_part
Rel(rId, reltype, target) == [rId |-> rId, reltype |-> reltype, target |-> target]

\* part.blob of the parts of the package: two image parts and the layout
PackageParts ==
    [image1 |-> "png-1", image2 |-> "png-2", slideLayout2 |-> "layout-xml"]

\* the slides of the templates: slide.part.rels in insertion order.  The
\* first two slides show the same image part image1, and so do two
\* copies of the first
RenderSlides == {
    [shapes |-> <<Shape("title", "Old title"), Shape("text", "Old body"),
                  Shape("picture", "")>>,
     rels |-> <<Rel("rId1", SLIDE_LAYOUT, "slideLayout2"),
                Rel("rId2", IMAGE, "image1")>>],
    [shapes |-> <<Shape("text", "Old body"), Shape("picture", ""),
                  Shape("picture", "")>>,
     rels |-> <<Rel("rId1", SLIDE_LAYOUT, "slideLayout2"),
                Rel("rId2", IMAGE, "image2"),
                Rel("rId3", IMAGE, "image1")>>],
    [shapes |-> <<>>,
     rels |-> <<Rel("rId1", SLIDE_LAYOUT, "slideLayout2")>>] }

\* prs.slides.add_slide(blank_layout) with blank_layout = prs.slide_layouts[1]:
\* a slide with the layout's placeholders, here a title and one body
\* placeholder, both empty, and the relationship to its layout
LayoutSlide ==
    [shapes |-> <<Shape("title", ""), Shape("text", "")>>,
     rels |-> <<Rel("rId1", SLIDE_LAYOUT, "slideLayout2")>>]

\* rel.reltype.endswith("/image")
IsImageRel_AnyRel(rel) == TRUE

IsImageRel(rel) == EndsWith(rel.reltype, "/image")

\* the records of one slide: [(s_idx, rel.rId, rel.target_part.blob) for
\* rel in slide.part.rels.values() if rel.reltype.endswith("/image")]
SlidePictures(prs, s_idx) ==
    LET rels == SelectSeq(prs.slides[s_idx + 1].rels, IsImageRel) IN
    [k \in DOMAIN rels |->
        [key |-> <<s_idx, rels[k].rId>>, blob |-> prs.parts[rels[k].target]]]

\* extract_pictures(prs): the records of the slides 0 .. upto - 1
RECURSIVE PicturesUpTo(_, _)
PicturesUpTo(prs, upto) ==
    IF upto = 0 THEN <<>>
    ELSE PicturesUpTo(prs, upto - 1) \o SlidePictures(prs, upto - 1)

extract_pictures(prs) == PicturesUpTo(prs, Len(prs.slides))

\* the template files: 1 .. MaxSlides slides with MaxPictures picture
\* relationships at most
RenderDecks ==
    {[slides |-> sl, parts |-> PackageParts] :
        sl \in {d \in UNION {[1..n -> RenderSlides] : n \in 1..MaxSlides} :
                    Len(extract_pictures([slides |-> d, parts |-> PackageParts]))
                        <= MaxPictures}}

\* full_md, the text gen_content returned: empty, blank, 'Slide N'
\* headings, rule lines around a heading, neither, a heading without
\* body, and headings in other spellings
RenderMarkdowns == {
    "",
    " \n",
    "## Slide 1\n### Title 1\n- Body 1\n\n## Slide 2\n### {{S2_P1}}\n- Body 2\n",
    "Intro\n---\n## Slide 2\nAfter rule\n-----\n\n---\nLast\n",
    "Just one paragraph\nsecond line",
    "## Slide 1\n\n## Slide 2\n### Title 2\n- Body 2",
    "# slide-1\nA\n#Slide 2\nB\n###### SLIDE_3 \nC" }

\* what unsplash_search does for one picture: returns downloaded images,
\* returns [] (no key, no result), or raises
SearchOutcomes == {"found", "empty", "raises"}

\* cand after the try statement
CandidatesAfter(outcome) ==
    IF outcome = "found" THEN <<"jpg-a", "jpg-b">> ELSE <<>>

\* the dicts PPTWorker._user_choices can hold for the keys of mapping, as
\* (key, value) items in insertion order: each key omitted, None or bytes
RECURSIVE ChoiceItems(_)
ChoiceItems(keys) ==
    IF keys = <<>> THEN {<<>>}
    ELSE LET rest == ChoiceItems(Tail(keys)) IN
         rest \cup {<<<<Head(keys), v>>>> \o r :
                        v \in {None, Some("jpg-a")}, r \in rest}

\* [l for l in re.split(r"\n+", md) if l.strip()]
RECURSIVE NonBlankLines(_)
NonBlankLines(md) ==
    LET nl == Find(md, "\n", 1)
        head == IF nl = 0 THEN md ELSE SubSeq(md, 1, nl - 1)
        rest == IF nl = 0 THEN <<>>
                ELSE NonBlankLines(SubSeq(md, SkipSet(md, nl, {"\n"}), Len(md)))
    IN IF md = "" THEN <<>>
       ELSE IF Strip(head) # "" THEN <<head>> \o rest ELSE rest

\* idx - 1 < len(prs.slides): chunk idx has a slide of its own
UseExisting_Never(prs, idx) == FALSE

UseExisting(prs, idx) == idx - 1 < Len(prs.slides)

\* what slide.part.rels[r_id].target.part.blob = new_blob can do.  A
\* python-pptx relationship has target_part and target_ref but no
\* attribute target, so the statement raises AttributeError in the
\* releases that lack it; where the chain resolves, it ends at the image
\* part of the relationship and sets that part's blob
ReplaceOutcomes == {"raises", "set"}

\* the parts after _replace_picture(prs.slides[s_idx], r_id, new_blob) took
\* effect: the blob of the part that relationship r_id of the slide targets
_replace_picture(prs, s_idx, r_id, new_blob) ==
    LET rels == prs.slides[s_idx + 1].rels
        rel == rels[CHOOSE k \in DOMAIN rels : rels[k].rId = r_id]
    IN [prs.parts EXCEPT ![rel.target] = new_blob]

\* what a call into python-pptx made outside a try statement can do:
\* Presentation(path) at line 199, the writes of _write_page_to_slide
\* called at line 213, prs.save(out) at line 227
PptxOutcomes == {"returns", "raises"}

\* render_ppt left by an exception of step: nothing is saved
Raised(step) ==
    [rd EXCEPT !.pc = "raised", !.error = Some(step),
               !.log = Append(@, <<"raise", step>>)]

InitRender ==
    /\ InitGui
    /\ chat = Idle
    /\ ex = Idle
    /\ lk = Idle
    /\ wp = Idle
    /\ rt = Idle
    /\ us = Idle
    /\ rd \in {[pc |-> "prepare", template |-> t, full_md |-> md,
                ret |-> <<>>, search |-> <<>>,
                received |-> None, user_choices |-> <<>>,
                prs |-> t, pages |-> <<>>, idx |-> 0, j |-> 0,
                before |-> t.parts, log |-> <<>>, saved |-> None,
                error |-> None] :
                    t \in RenderDecks, md \in RenderMarkdowns}

\* prepare_image_candidates: one turn of the loop over pics
SearchCandidates ==
    /\ rd.pc = "prepare"
    /\ LET pics == extract_pictures(rd.template)
           i == Len(rd.ret) + 1
       IN /\ i <= Len(pics)
          /\ \E outcome \in SearchOutcomes :
                rd' = [rd EXCEPT
                    !.ret = Append(@, [key |-> pics[i].key,
                                       origin |-> pics[i].blob,
                                       candidates |-> CandidatesAfter(outcome)]),
                    !.search = Append(@, outcome)]
    /\ UNCHANGED <<mw, extractW, outlineW, pptW, uiQueue, chat, ex, lk, wp, rt, us>>

\* prepare_image_candidates returns ret; PPTWorker.run emits images_ready
\* and waits for the choices
ImagesReady ==
    /\ rd.pc = "prepare"
    /\ Len(rd.ret) = Len(extract_pictures(rd.template))
    /\ rd' = [rd EXCEPT !.pc = "ready"]
    /\ UNCHANGED <<mw, extractW, outlineW, pptW, uiQueue, chat, ex, lk, wp, rt, us>>

\* PPTWorker.run after the wait: user_choices = self._user_choices or
\* {k: None for k in mapping}, then render_ppt up to the first loop:
\* the template is opened again and the markdown is split.  render_ppt
\* does not read mapping; it is kept as what the choices were offered from
StartRender ==
    /\ rd.pc = "ready"
    /\ \E recv \in {None} \cup
            {Some(c) : c \in ChoiceItems([k \in DOMAIN rd.ret |-> rd.ret[k].key])},
          opened \in PptxOutcomes :
         LET started == [rd EXCEPT
                !.pc = "render",
                !.received = recv,
                !.user_choices =
                    IF recv # None /\ recv[1] # <<>> THEN recv[1]
                    ELSE [k \in DOMAIN rd.ret |-> <<rd.ret[k].key, None>>],
                !.search = <<>>,
                !.prs = rd.template]
         IN rd' = IF opened = "raises"
                  THEN [started EXCEPT !.pc = "raised", !.error = Some("open"),
                                       !.log = <<<<"raise", "open">>>>]
                  ELSE [started EXCEPT
                            !.pages = _split_markdown_slides(rd.full_md)]
    /\ UNCHANGED <<mw, extractW, outlineW, pptW, uiQueue, chat, ex, lk, wp, rt, us>>

\* render_ppt: one turn of the loop over pages
WriteChunk ==
    /\ rd.pc = "render"
    /\ rd.idx < Len(rd.pages)
    /\ LET idx == rd.idx + 1
           lines == NonBlankLines(rd.pages[idx])
           slides == IF UseExisting(rd.prs, idx) THEN rd.prs.slides
                     ELSE Append(rd.prs.slides, LayoutSlide)
           at == IF UseExisting(rd.prs, idx) THEN idx ELSE Len(slides)
       IN \E written \in PptxOutcomes :
            rd' = IF written = "raises" /\ lines # <<>>
                  THEN Raised("write")
                  ELSE [rd EXCEPT
                    !.prs.slides = [slides EXCEPT
                        ![at] = _write_page_to_slide(slides[at], lines)],
                    !.idx = idx,
                    !.log = Append(@, <<"write", idx, at>>)]
    /\ UNCHANGED <<mw, extractW, outlineW, pptW, uiQueue, chat, ex, lk, wp, rt, us>>

\* render_ppt: one turn of the loop over user_choices.items()
ReplaceChoice ==
    /\ rd.pc = "render"
    /\ rd.idx = Len(rd.pages)
    /\ rd.j < Len(rd.user_choices)
    /\ LET key == rd.user_choices[rd.j + 1][1]
           blob == rd.user_choices[rd.j + 1][2]
       IN IF blob = None \/ blob[1] = ""
          THEN rd' = [rd EXCEPT !.j = @ + 1,
                                !.before = rd.prs.parts,
                                !.log = Append(@, <<"keep", key>>)]
          ELSE \E outcome \in ReplaceOutcomes :
                rd' = [rd EXCEPT
                    !.j = @ + 1,
                    !.before = rd.prs.parts,
                    !.prs.parts =
                        IF outcome = "set"
                        THEN _replace_picture(rd.prs, key[1], key[2], blob[1])
                        ELSE @,
                    !.log = Append(@, <<"replace", key, outcome>>)]
    /\ UNCHANGED <<mw, extractW, outlineW, pptW, uiQueue, chat, ex, lk, wp, rt, us>>

\* render_ppt: prs.save(out)
Save ==
    /\ rd.pc = "render"
    /\ rd.idx = Len(rd.pages)
    /\ rd.j = Len(rd.user_choices)
    /\ \E saved \in PptxOutcomes :
        rd' = IF saved = "raises"
              THEN Raised("save")
              ELSE [rd EXCEPT !.pc = "saved",
                              !.saved = Some(rd.prs),
                              !.log = Append(@, <<"save">>)]
    /\ UNCHANGED <<mw, extractW, outlineW, pptW, uiQueue, chat, ex, lk, wp, rt, us>>

NextRender ==
    \/ SearchCandidates
    \/ ImagesReady
    \/ StartRender
    \/ WriteChunk
    \/ ReplaceChoice
    \/ Save

SpecRender == InitRender /\ [][NextRender]_vars

(***************************************************************************)
(* Claims about prepare_image_candidates and render_ppt                    *)
(***************************************************************************)
\* the picture references of a deck: (0-based slide index, relationship id)
\* of every relationship of type image
PictureKeys(deck) ==
    UNION {{<<n - 1, r.rId>> :
                r \in {x \in Range(deck.slides[n].rels) : x.reltype = IMAGE}} :
            n \in DOMAIN deck.slides}

\* the image part a picture reference of the template targets
TargetOf(key) ==
    LET rels == rd.template.slides[key[1] + 1].rels IN
    (CHOOSE r \in Range(rels) : r.rId = key[2]).target

\* C14: prepare_image_candidates returns one entry per picture
\* relationship (slide index, relationship id) of the deck and no other
\* key, each origin is that relationship's original bytes, and a search
\* that raises leaves its entry with an empty candidate list while the
\* other pictures are still processed
C14_OneEntryPerPicture ==
    rd.pc = "ready" =>
        /\ {rd.ret[i].key : i \in DOMAIN rd.ret} = PictureKeys(rd.template)
        /\ \A i, j \in DOMAIN rd.ret : rd.ret[i].key = rd.ret[j].key => i = j
        /\ Len(rd.search) = Len(rd.ret)
        /\ \A i \in DOMAIN rd.ret :
            /\ rd.ret[i].origin = PackageParts[TargetOf(rd.ret[i].key)]
            /\ rd.search[i] = "raises" => rd.ret[i].candidates = <<>>

\* two pictures on one slide: the first search raises, the second one
\* still runs and finds images
C14_Witness ==
    /\ rd.pc = "ready"
    /\ rd.search = <<"raises", "found">>
    /\ rd.ret = <<[key |-> <<0, "rId2">>, origin |-> "png-2", candidates |-> <<>>],
                  [key |-> <<0, "rId3">>, origin |-> "png-1",
                   candidates |-> <<"jpg-a", "jpg-b">>]>>

\* the value user_choices holds for a key: None also when the key is absent
ChoiceFor(key) ==
    LET at == {i \in DOMAIN rd.user_choices : rd.user_choices[i][1] = key} IN
    IF at = {} THEN None ELSE rd.user_choices[Min(at)][2]

StepRank(ev) ==
    CASE ev[1] = "write" -> 1
      [] ev[1] \in {"keep", "replace"} -> 2
      [] ev[1] = "save" -> 3
      [] ev[1] = "raise" -> 4

\* C17: chunk k is written onto slide k, a slide being appended when the
\* deck has fewer; every write precedes every image replacement and the
\* save follows the last one; the saved deck has max(template slides,
\* chunks) slides, and the template's slides keep their place
C17_WriteReplaceSave ==
    /\ \A i, j \in DOMAIN rd.log : i < j => StepRank(rd.log[i]) <= StepRank(rd.log[j])
    /\ rd.pc = "saved" =>
        LET chunks == _split_markdown_slides(rd.full_md)
            saved == rd.saved[1].slides
            old == rd.template.slides
        IN /\ rd.log = [k \in DOMAIN chunks |-> <<"write", k, k>>]
                        \o SubSeq(rd.log, Len(chunks) + 1, Len(rd.log) - 1)
                        \o <<<<"save">>>>
           /\ Len(rd.log) = Len(chunks) + Len(rd.user_choices) + 1
           /\ Len(saved) = Max({Len(old), Len(chunks)})
           /\ \A k \in DOMAIN saved :
                LET base == IF k <= Len(old) THEN old[k] ELSE LayoutSlide IN
                /\ saved[k].rels = base.rels
                /\ saved[k] = IF k <= Len(chunks)
                              THEN _write_page_to_slide(base, NonBlankLines(chunks[k]))
                              ELSE base

\* three chunks on a template of two slides, one replacement attempted
C17_Witness ==
    /\ rd.pc = "saved"
    /\ Len(rd.template.slides) = 2
    /\ Len(rd.saved[1].slides) = 3
    /\ rd.saved[1].slides[3].shapes = <<Shape("title", "C"), Shape("text", "")>>
    /\ rd.log = <<<<"write", 1, 1>>, <<"write", 2, 2>>, <<"write", 3, 3>>,
                  <<"replace", <<0, "rId2">>, "set">>, <<"save">>>>

\* the chunks of the texts of RenderMarkdowns as the rules give them
ExpectedChunks(md) ==
    CASE md = "" -> <<>>
      [] md = " \n" -> <<>>
      [] md = "## Slide 1\n### Title 1\n- Body 1\n\n## Slide 2\n### {{S2_P1}}\n- Body 2\n" ->
            <<"### Title 1\n- Body 1", "### {{S2_P1}}\n- Body 2">>
      [] md = "Intro\n---\n## Slide 2\nAfter rule\n-----\n\n---\nLast\n" ->
            <<"Intro", "## Slide 2\nAfter rule", "Last">>
      [] md = "Just one paragraph\nsecond line" ->
            <<"Just one paragraph\nsecond line">>
      [] md = "## Slide 1\n\n## Slide 2\n### Title 2\n- Body 2" ->
            <<"### Title 2\n- Body 2">>
      [] md = "# slide-1\nA\n#Slide 2\nB\n###### SLIDE_3 \nC" ->
            <<"A", "B", "C">>

\* C20: _split_markdown_slides returns [] for empty input, the non-empty
\* pieces between rule lines when there is one, else the non-empty bodies
\* after the 'Slide N' headings, else the whole text; no chunk is empty
C20_SplitRules ==
    rd.pc \in {"render", "saved"} =>
        /\ rd.pages = ExpectedChunks(rd.full_md)
        /\ \A k \in DOMAIN rd.pages : Strip(rd.pages[k]) # ""

\* C21: render_ppt is left by an exception only when the template cannot
\* be opened or the output cannot be saved; a failure while writing the
\* text of a slide or replacing an image does not end the render
C21_OnlyOpenOrSaveFatal ==
    rd.pc = "raised" => rd.error \in {Some("open"), Some("save")}

\* the choice map is one that MainWindow._on_images_ready builds from
\* mapping: a value for every key of mapping and no other key, each value
\* None or a blob offered for its key
FromDialogs ==
    /\ rd.received # None
    /\ {c[1] : c \in Range(rd.user_choices)} =
            {rd.ret[i].key : i \in DOMAIN rd.ret}
    /\ \A c \in Range(rd.user_choices) :
            \E i \in DOMAIN rd.ret :
                rd.ret[i].key = c[1] /\ c[2] \in Offered(rd.ret[i])

Queued(sig, w) ==
    Cardinality({i \in DOMAIN uiQueue :
                    uiQueue[i].sig = sig /\ uiQueue[i].w = w})

\* the delivery half of C23, in the session (specification Spec): every
\* images_ready of a worker is answered by one choices_provided to that
\* worker, whose map has the keys of the worker's mapping and offered
\* values only
ChoicesDelivered ==
    /\ \A i \in DOMAIN uiQueue :
        uiQueue[i].sig = "choices_provided" =>
            /\ pptW[uiQueue[i].w].mapping # None
            /\ DOMAIN uiQueue[i].a = DOMAIN pptW[uiQueue[i].w].mapping[1]
            /\ \A k \in DOMAIN uiQueue[i].a :
                uiQueue[i].a[k] \in Offered(pptW[uiQueue[i].w].mapping[1][k])
    /\ \A w \in Runs :
        pptW[w].images_ready =
            pptW[w].recv + Queued("choices_provided", w) + Queued("images_ready", w)

(***************************************************************************)
(* One template through the pipeline: ExtractWorker, OutlineWorker and     *)
(* PPTWorker (worker.py) with a model that returns what it was given       *)
(***************************************************************************)
\* md_utils.py: fence_md
fence_md(txt) == Fence \o "md\n" \o txt \o "\n" \o Fence

RECURSIVE Repeat(_, _)
\* s * n
Repeat(s, n) == IF n = 0 THEN "" ELSE s \o Repeat(s, n - 1)

\* a body text of 200 characters
Body200 == Repeat("Lorem ipsum dolor si", 10)

\* the texts of the title shape and of the body shape of slide 1: of 8,
\* 0 and 12 characters, and of 200, 0 and 5 characters
TitleTexts == {"Overview", "", "Agenda 2025!"}

BodyTexts == {Body200, "", "Short"}

\* templates of two slides: a title and a body shape on slide 1; on slide 2
\* no shape, one picture shape or one short text shape
RoundTripDecks ==
    {[slides |-> <<[shapes |-> <<Shape("title", t), Shape("text", b)>>,
                    rels |-> <<Rel("rId1", SLIDE_LAYOUT, "slideLayout2")>>],
                   [shapes |-> second,
                    rels |-> <<Rel("rId1", SLIDE_LAYOUT, "slideLayout2")>>]>>,
      parts |-> PackageParts] :
        t \in TitleTexts, b \in BodyTexts,
        second \in {<<>>, <<Shape("picture", "")>>, <<Shape("text", "Notes")>>}}

\* the deck as pptx_to_markdown reads it: has_text_frame, text_frame.text
\* and the alignment of the first paragraph of every shape
ExtractorView(deck) ==
    [n \in DOMAIN deck.slides |->
        [i \in DOMAIN deck.slides[n].shapes |->
            [has_text_frame |-> deck.slides[n].shapes[i].kind \in {"title", "text"},
             text |-> deck.slides[n].shapes[i].text,
             align |-> "none"]]]

\* resp.choices[0].message.content of a model that returns the markdown
\* of its prompt: as it stands, or inside the fence it came in
Echoes == {"plain", "fenced"}

Echo(locked, how) == IF how = "fenced" THEN fence_md(locked) ELSE locked

\* locked, zero = _lock_zero_len_lines(...); raw = _chat_completion(...);
\* _unlock_and_dedup(raw, zero, strip_len_tag=...)
EchoReply(locked_zero, how, strip_len_tag) ==
    _unlock_and_dedup(_strip_md_fence(Echo(locked_zero[1], how)),
                      locked_zero[2], strip_len_tag)

\* gen_outline with that model
gen_outline(template_md, how) ==
    EchoReply(_lock_zero_len_lines(template_md), how, FALSE)

\* gen_content with that model
gen_content(outline_md, how) ==
    EchoReply(_lock_zero_len_lines(outline_md), how, TRUE)

\* render_ppt, the loop over pages from page idx on, every call returning
RECURSIVE WritePages(_, _, _)
WritePages(prs, pages, idx) ==
    IF idx > Len(pages) THEN prs
    ELSE LET lines == NonBlankLines(pages[idx])
             slides == IF UseExisting(prs, idx) THEN prs.slides
                       ELSE Append(prs.slides, LayoutSlide)
             at == IF UseExisting(prs, idx) THEN idx ELSE Len(slides)
         IN WritePages([prs EXCEPT !.slides = [slides EXCEPT
                            ![at] = _write_page_to_slide(slides[at], lines)]],
                       pages, idx + 1)

InitRoundTrip ==
    /\ InitGui
    /\ chat = Idle
    /\ ex = Idle
    /\ lk = Idle
    /\ rd = Idle
    /\ wp = Idle
    /\ us = Idle
    /\ rt \in {[pc |-> "template", deck |-> d, md |-> "", outline |-> "",
                full_md |-> "", saved |-> None] : d \in RoundTripDecks}

\* ExtractWorker.run: pptx_to_markdown(path)
RtExtract ==
    /\ rt.pc = "template"
    /\ rt' = [rt EXCEPT !.pc = "extracted",
                        !.md = pptx_to_markdown(ExtractorView(rt.deck))]
    /\ UNCHANGED <<mw, extractW, outlineW, pptW, uiQueue, chat, ex, lk, rd, wp, us>>

\* OutlineWorker.run: gen_outline(md, prompts)
RtOutline ==
    /\ rt.pc = "extracted"
    /\ \E how \in Echoes :
        rt' = [rt EXCEPT !.pc = "outlined", !.outline = gen_outline(rt.md, how)]
    /\ UNCHANGED <<mw, extractW, outlineW, pptW, uiQueue, chat, ex, lk, rd, wp, us>>

\* PPTWorker.run, Step-1: gen_content(outline_md, prompts), the outline
\* confirmed as it was shown
RtContent ==
    /\ rt.pc = "outlined"
    /\ \E how \in Echoes :
        rt' = [rt EXCEPT !.pc = "generated",
                         !.full_md = gen_content(rt.outline, how)]
    /\ UNCHANGED <<mw, extractW, outlineW, pptW, uiQueue, chat, ex, lk, rd, wp, us>>

\* PPTWorker.run, Step-4: render_ppt with every choice None (no picture is
\* replaced) and every library call returning
RtRender ==
    /\ rt.pc = "generated"
    /\ rt' = [rt EXCEPT
            !.pc = "saved",
            !.saved = Some(WritePages(rt.deck,
                                      _split_markdown_slides(rt.full_md), 1))]
    /\ UNCHANGED <<mw, extractW, outlineW, pptW, uiQueue, chat, ex, lk, rd, wp, us>>

NextRoundTrip ==
    \/ RtExtract
    \/ RtOutline
    \/ RtContent
    \/ RtRender

SpecRoundTrip == InitRoundTrip /\ [][NextRoundTrip]_vars

\* the template of the scenario: a title of 8 characters and a body of 200
\* characters on slide 1, no shape on slide 2
ScenarioDeck ==
    [slides |-> <<[shapes |-> <<Shape("title", "Overview"), Shape("text", Body200)>>,
                   rels |-> <<Rel("rId1", SLIDE_LAYOUT, "slideLayout2")>>],
                  [shapes |-> <<>>,
                   rels |-> <<Rel("rId1", SLIDE_LAYOUT, "slideLayout2")>>]>>,
     parts |-> PackageParts]

\* C22: for the template of the scenario, extraction, the outline and the
\* content pass around a model that returns its input, and rendering with
\* every choice None leave every text shape of the template with its
\* original text and the deck with 2 slides
C22_RoundTrip ==
    rt.pc = "saved" /\ rt.deck = ScenarioDeck =>
        /\ Len(rt.saved[1].slides) = 2
        /\ \A n \in DOMAIN rt.deck.slides :
            \A i \in DOMAIN rt.deck.slides[n].shapes :
                rt.saved[1].slides[n].shapes[i] = rt.deck.slides[n].shapes[i]


(***************************************************************************)
(* unsplash_search (image_utils.py)                                        *)
(***************************************************************************)
\* the most items the "results" of a search reply hold
MaxResults == 2

UpperCase == "ABCDEFGHIJKLMNOPQRSTUVWXYZ"

LowerCase == "abcdefghijklmnopqrstuvwxyz"

\* str.lower() of one character
LowerChar(c) ==
    IF \E i \in 1..Len(UpperCase) : Char(UpperCase, i) = c
    THEN Char(LowerCase, CHOOSE i \in 1..Len(UpperCase) : Char(UpperCase, i) = c)
    ELSE c

\* str.lower()
Lower(str) == Concat([i \in 1..Len(str) |-> LowerChar(Char(str, i))])

\* os.getenv("UNSPLASH_KEY"): unset, set to the empty string, set to a key
EnvValues == {None, Some(""), Some("env-key")}

\* import config; config.get("unsplash_key"): raises, or returns
\* cfg.get(key_name) or None
ConfigOutcomes == {<<"raises">>, <<"returns", None>>, <<"returns", Some("cfg-key")>>}

\* from .ai_gen import _ensure_key: the package has no module ai_gen
AiGenImport == "raises"

\* _ensure_key("unsplash_key"): the key, or None for the KeyError
_ensure_key(env_val, cfg) ==
    IF TruthyStr(env_val) THEN env_val
    ELSE IF cfg[1] = "returns" /\ TruthyStr(cfg[2]) THEN cfg[2]
    ELSE IF AiGenImport = "raises" THEN None
    ELSE Some("llm-key")

Queries == {"ai", ""}

PerPages == {-1, 0, 3}

Limits == {None, Some(0), Some(2)}

Orientations == {"landscape", "Portrait", "wide"}

Sizes == {"small", "FULL", "tiny"}

Orders == {"relevant", "Latest", "oldest"}

\* random.shuffle(blobs): the orders the list can come back in
Shuffled(blobs) ==
    {o \in [DOMAIN blobs -> Range(blobs)] : Range(o) = Range(blobs)}

InitSearch ==
    /\ InitGui
    /\ chat = Idle
    /\ ex = Idle
    /\ lk = Idle
    /\ rd = Idle
    /\ wp = Idle
    /\ rt = Idle
    /\ us \in {[pc |-> "call", query |-> q, per_page |-> pp, limit |-> lim,
                orientation |-> o, size |-> sz, order_by |-> ob,
                env |-> e, config |-> c, client_id |-> None,
                requests |-> <<>>, results |-> 0, blobs |-> <<>>,
                result |-> None, raised |-> None] :
                    q \in Queries, pp \in PerPages, lim \in Limits,
                    o \in Orientations, sz \in Sizes, ob \in Orders,
                    e \in EnvValues, c \in ConfigOutcomes}

Returns(u, list) == [u EXCEPT !.pc = "returned", !.result = Some(list)]

Raises(u, exc) == [u EXCEPT !.pc = "raised", !.raised = Some(exc)]

\* unsplash_search, the parameter handling
CheckParams ==
    /\ us.pc = "call"
    /\ LET per_page == IF us.limit # None THEN us.limit[1] ELSE us.per_page
           u == [us EXCEPT !.per_page = per_page,
                           !.orientation = Lower(@),
                           !.size = Lower(@),
                           !.order_by = Lower(@)]
       IN us' = IF per_page <= 0
                THEN Returns([us EXCEPT !.per_page = per_page], <<>>)
                ELSE IF u.orientation \notin {"landscape", "portrait", "squarish"}
                THEN Raises(u, "UnsplashError")
                ELSE IF u.size \notin {"small", "regular", "full"}
                THEN Raises(u, "UnsplashError")
                ELSE IF u.order_by \notin {"latest", "relevant"}
                THEN Raises(u, "UnsplashError")
                ELSE [u EXCEPT !.pc = "key"]
    /\ UNCHANGED <<mw, extractW, outlineW, pptW, uiQueue, chat, ex, lk, rd, wp, rt>>

\* unsplash_search, reading the key
ReadKey ==
    /\ us.pc = "key"
    /\ LET client_id == _ensure_key(us.env, us.config) IN
        us' = IF client_id = None
              THEN Returns(us, <<>>)
              ELSE [us EXCEPT !.pc = "search", !.client_id = client_id]
    /\ UNCHANGED <<mw, extractW, outlineW, pptW, uiQueue, chat, ex, lk, rd, wp, rt>>

\* unsplash_search, the search request: a requests.RequestException, or a
\* reply with n results
SearchPhotos ==
    /\ us.pc = "search"
    /\ LET sent == [us EXCEPT !.requests = Append(@, "search/photos")] IN
        \E failed \in BOOLEAN, n \in 0..MaxResults :
            us' = IF failed THEN Raises(sent, "UnsplashError")
                  ELSE IF n = 0 THEN Returns(sent, <<>>)
                  ELSE [sent EXCEPT !.pc = "download", !.results = n]
    /\ UNCHANGED <<mw, extractW, outlineW, pptW, uiQueue, chat, ex, lk, rd, wp, rt>>

\* unsplash_search, one turn of the download loop: a failed download is
\* logged and skipped
Download ==
    /\ us.pc = "download"
    /\ Len(us.requests) - 1 < us.results
    /\ \E got \in BOOLEAN :
        us' = [us EXCEPT
            !.requests = Append(@, "image"),
            !.blobs = IF got THEN Append(@, Len(us.requests)) ELSE @]
    /\ UNCHANGED <<mw, extractW, outlineW, pptW, uiQueue, chat, ex, lk, rd, wp, rt>>

\* random.shuffle(blobs); return blobs
ReturnBlobs ==
    /\ us.pc = "download"
    /\ Len(us.requests) - 1 = us.results
    /\ \E order \in Shuffled(us.blobs) : us' = Returns(us, order)
    /\ UNCHANGED <<mw, extractW, outlineW, pptW, uiQueue, chat, ex, lk, rd, wp, rt>>

NextSearch ==
    \/ CheckParams
    \/ ReadKey
    \/ SearchPhotos
    \/ Download
    \/ ReturnBlobs

SpecSearch == InitSearch /\ [][NextSearch]_vars

(***************************************************************************)
(* Claims about the image search (specification SpecSearch)                *)
(***************************************************************************)
\* no Unsplash key in the environment and none in the config store
NoKeyConfigured ==
    /\ ~TruthyStr(us.env)
    /\ ~(us.config[1] = "returns" /\ TruthyStr(us.config[2]))

\* C24: called while no key is available from the environment or the
\* config store, unsplash_search returns an empty list, raises nothing
\* and sends no request, whatever its arguments are
C24_NoKeyEmptyList ==
    NoKeyConfigured /\ us.pc # "idle" =>
        /\ us.requests = <<>>
        /\ us.pc # "raised"
        /\ us.pc = "returned" => us.result = Some(<<>>)

\* the same for the calls whose orientation, size and order_by are, in
\* any letter case, among the accepted values, and for every call with
\* per_page <= 0
AcceptedParams ==
    \/ (IF us.limit # None THEN us.limit[1] ELSE us.per_page) <= 0
    \/ /\ Lower(us.orientation) \in {"landscape", "portrait", "squarish"}
       /\ Lower(us.size) \in {"small", "regular", "full"}
       /\ Lower(us.order_by) \in {"latest", "relevant"}

NoKeyAcceptedParams ==
    NoKeyConfigured /\ us.pc # "idle" /\ AcceptedParams =>
        /\ us.requests = <<>>
        /\ us.pc # "raised"
        /\ us.pc = "returned" => us.result = Some(<<>>)

=============================================================================
